---- MODULE Spec2Model ----
(***************************************************************************)
(* A model of sysmon's alerting core (src/sysmon/monitor.py):              *)
(*   - SustainedTracker.check, the per-key stopwatch;                      *)
(*   - check_thresholds, the threshold evaluator;                          *)
(*   - check_idle_services, the idle container / process evaluator with    *)
(*     its cooldown ledger.                                                *)
(* Python dicts are functions whose DOMAIN is the set of keys present.     *)
(* Metric values, limits and times are integers: one unit of a clock is    *)
(* one second, one unit of an age or an uptime is one minute.              *)
(***************************************************************************)
EXTENDS Integers, Sequences, FiniteSets, TLC

VARIABLES
    thresholds,           \* monitor.thresholds: metric -> [warning, critical]
    sustained,            \* monitor.sustained: metric -> [warning, critical] seconds
    alert_cooldown,       \* monitor.alert_cooldown, seconds
    docker_idle_minutes,  \* monitor.docker_idle_minutes
    watchlist,            \* monitor.watchlist: key -> entry
    mono,                 \* the reading of time.monotonic()
    wall,                 \* the reading of time.time()
    exceeded_since,       \* SustainedTracker.exceeded_since
    last_alerted,         \* the cooldown ledger of main()
    calls,                \* history: the SustainedTracker.check calls made so far
    emitted,              \* history: alert key -> time of the last alert emitted for it
    last,                 \* history: the most recent operation, its inputs and results
    procs,                \* the process table psutil.process_iter lists
    frame,                \* main(): its position and its local variables
    notified,             \* history: the notifications main() has sent
    btop_opened_at,       \* monitor._btop_opened_at
    gpu_available,        \* dashboard._gpu_available: "None", "True" or "False"
    prev,                 \* dashboard._prev_* and dashboard._has_prev
    inspector             \* inspect_service: its position, its locals, the signals sent

vars == <<thresholds, sustained, alert_cooldown, docker_idle_minutes, watchlist,
          mono, wall, exceeded_since, last_alerted, calls, emitted, last,
          procs, frame, notified, btop_opened_at, gpu_available, prev, inspector>>

config == <<thresholds, sustained, alert_cooldown, docker_idle_minutes, watchlist>>

\* The state of the monitoring loop and of the process table.
loop == <<procs, frame, notified, btop_opened_at>>

\* The state of the dashboard and of the inspector, programs of their own.
programs == <<gpu_available, prev, inspector>>

-----------------------------------------------------------------------------
(* Bounds of the model *)

MaxMono == 3
MaxCalls == 4
MaxRequired == 2
MaxValue == 4
MaxWall == 2
MaxAge == 1

-----------------------------------------------------------------------------
(* Python dict operations *)

EmptyDict == [k \in {} |-> 0]

\* d[k] = v
DictSet(d, k, v) == [x \in (DOMAIN d) \cup {k} |-> IF x = k THEN v ELSE d[x]]

\* d.setdefault(k, v): the dict afterwards
DictSetDefault(d, k, v) == IF k \in DOMAIN d THEN d ELSE DictSet(d, k, v)

\* d.pop(k, None): the dict afterwards
DictPop(d, k) == [x \in (DOMAIN d) \ {k} |-> d[x]]

\* d.get(k, default)
DictGet(d, k, default) == IF k \in DOMAIN d THEN d[k] ELSE default

\* f"{a}:{b}"
Key(a, b) == a \o ":" \o b

-----------------------------------------------------------------------------
(* Configuration: the defaults of config.py, scaled to the model's units *)

Severities == <<"critical", "warning">>

DefaultThresholds ==
    [m \in {"cpu_percent", "ram_percent"} |-> [warning |-> 2, critical |-> 3]]

DefaultSustained ==
    [m \in {"cpu_percent"} |-> [warning |-> 2, critical |-> 1]]

DefaultWatchlist ==
    [k \in {"zoom", "slack", "code"} |->
        CASE k = "zoom" -> [label |-> "Zoom", idle_minutes |-> 1, active_cpu |-> 2]
          [] k = "slack" -> [label |-> "Slack", idle_minutes |-> 2]
          [] k = "code" -> [label |-> "VS Code", idle_minutes |-> 0]]

DefaultCooldown == 2
DefaultDockerIdle == 2

SecondsPerMinute == 60

\* The reading of time.time() when the model starts: seconds since 1970,
\* far above any cooldown.
WallStart == 10 * SecondsPerMinute

\* The dashboard has probed nothing and read no counter, the inspector has
\* not been started.
InitPrograms ==
    /\ gpu_available = "None"
    /\ prev = [disk_read |-> 0, disk_write |-> 0, net_recv |-> 0, net_sent |-> 0,
               time |-> 0, has_prev |-> FALSE]
    /\ inspector = [pc |-> "start", mode |-> "none", procs |-> {}, alive |-> {},
                    input |-> "", choice |-> "", force |-> "", sent |-> {}]

\* Before main() runs: no process listed, nothing sent, btop never opened.
InitLoop ==
    /\ procs = <<>>
    /\ frame = [pc |-> "start"]
    /\ notified = {}
    /\ btop_opened_at = 0
    /\ InitPrograms

-----------------------------------------------------------------------------
(* SustainedTracker *)

\* A check that restarts the stopwatch on every true call.
TrackerCheck_restart(es, key, is_exceeded, required_seconds, now) ==
    IF is_exceeded
    THEN [ret |-> (now - now) >= required_seconds,
          exceeded_since |-> DictSet(es, key, now)]
    ELSE [ret |-> FALSE, exceeded_since |-> DictPop(es, key)]

\* A check that keeps the entry on a false call.
TrackerCheck_keep(es, key, is_exceeded, required_seconds, now) ==
    IF is_exceeded
    THEN LET es2 == DictSetDefault(es, key, now)
         IN  [ret |-> (now - es2[key]) >= required_seconds, exceeded_since |-> es2]
    ELSE [ret |-> FALSE, exceeded_since |-> es]

\* A check that forgets every key on a false call.
TrackerCheck_clearall(es, key, is_exceeded, required_seconds, now) ==
    IF is_exceeded
    THEN LET es2 == DictSetDefault(es, key, now)
         IN  [ret |-> (now - es2[key]) >= required_seconds, exceeded_since |-> es2]
    ELSE [ret |-> FALSE, exceeded_since |-> EmptyDict]

\* SustainedTracker.check(key, is_exceeded, required_seconds) with
\* time.monotonic() reading now: the value returned and the dict afterwards.
TrackerCheck(es, key, is_exceeded, required_seconds, now) ==
    IF is_exceeded
    THEN LET es2 == DictSetDefault(es, key, now)
         IN  [ret |-> (now - es2[key]) >= required_seconds, exceeded_since |-> es2]
    ELSE [ret |-> FALSE, exceeded_since |-> DictPop(es, key)]

TrackerKeys == {Key("cpu_percent", Severities[i]) : i \in 1..2}

\* The monotonic clock advances.
MonoTick ==
    /\ mono < MaxMono
    /\ mono' = mono + 1
    /\ UNCHANGED <<config, programs, loop, wall, exceeded_since, last_alerted, calls, emitted, last>>

\* One call of SustainedTracker.check.
SustainedCheck ==
    \E key \in TrackerKeys, is_exceeded \in BOOLEAN, required \in 0..MaxRequired :
        LET r == TrackerCheck(exceeded_since, key, is_exceeded, required, mono)
        IN  /\ Len(calls) < MaxCalls
            /\ exceeded_since' = r.exceeded_since
            /\ calls' = Append(calls, [key |-> key, is_exceeded |-> is_exceeded,
                                       now |-> mono])
            /\ last' = [op |-> "check", key |-> key, is_exceeded |-> is_exceeded,
                        required |-> required, now |-> mono, ret |-> r.ret,
                        pre |-> exceeded_since]
            /\ UNCHANGED <<config, programs, loop, mono, wall, last_alerted, emitted>>

InitConfigDefault ==
    /\ thresholds = DefaultThresholds
    /\ sustained = DefaultSustained
    /\ alert_cooldown = DefaultCooldown
    /\ docker_idle_minutes = DefaultDockerIdle
    /\ watchlist = DefaultWatchlist

InitTracker ==
    /\ InitConfigDefault
    /\ mono = 0
    /\ wall = WallStart
    /\ exceeded_since = EmptyDict
    /\ last_alerted = EmptyDict
    /\ calls = <<>>
    /\ emitted = EmptyDict
    /\ last = [op |-> "init"]
    /\ InitLoop

NextTracker == MonoTick \/ SustainedCheck

SpecTracker == InitTracker /\ [][NextTracker]_vars

-----------------------------------------------------------------------------
(* check_thresholds *)

\* "value is None": a sensor that is unavailable.
NoneValue == 0 - 1

\* The metrics of a snapshot, in the order collect_metrics lists them.
MetricOrder == <<"cpu_percent", "ram_percent">>

Metrics == {MetricOrder[i] : i \in 1..Len(MetricOrder)}

units == [m \in Metrics |-> "%"]

Alert(metric, severity, value, threshold) ==
    [metric |-> metric, severity |-> severity, value |-> value,
     threshold |-> threshold, unit |-> units[metric]]

\* The record of one SustainedTracker.check call made by check_thresholds.
TrackerCall(key, is_exceeded, required, now, ret) ==
    [key |-> key, is_exceeded |-> is_exceeded, required |-> required,
     now |-> now, ret |-> ret]

\* A comparison that leaves the limit itself out.
Exceeds_strict(value, limit) == value > limit

\* "exceeded = value >= limit"
Exceeds(value, limit) == value >= limit

\* What a loop of check_thresholds gives: the alerts appended, the tracker
\* afterwards and the SustainedTracker.check calls made.
LoopResult(alerts, es, tcalls) ==
    [alerts |-> alerts, exceeded_since |-> es, tcalls |-> tcalls]

\* "for severity in ("critical", "warning")", from the i-th severity on.
\* now is the reading of time.monotonic() during the call.
RECURSIVE SeverityLoop(_, _, _, _, _)
RECURSIVE SeverityLoop_nobreak(_, _, _, _, _)
RECURSIVE SeverityLoop_nosustain(_, _, _, _, _)

\* A loop that goes on to the warning check after a critical alert.
SeverityLoop_nobreak(metric, value, i, es, now) ==
    IF i > Len(Severities) THEN LoopResult(<<>>, es, <<>>)
    ELSE
      LET severity == Severities[i]
          limit == thresholds[metric][severity]
          exceeded == Exceeds(value, limit)
          key == Key(metric, severity)
          r == IF metric \in DOMAIN sustained
               THEN TrackerCheck(es, key, exceeded, sustained[metric][severity], now)
               ELSE [ret |-> exceeded, exceeded_since |-> es]
          made == IF metric \in DOMAIN sustained
                  THEN <<TrackerCall(key, exceeded, sustained[metric][severity],
                                     now, r.ret)>>
                  ELSE <<>>
          rest == SeverityLoop_nobreak(metric, value, i + 1, r.exceeded_since, now)
      IN  LoopResult((IF r.ret THEN <<Alert(metric, severity, value, limit)>>
                               ELSE <<>>) \o rest.alerts,
                     rest.exceeded_since, made \o rest.tcalls)

\* A loop that never asks the tracker.
SeverityLoop_nosustain(metric, value, i, es, now) ==
    IF i > Len(Severities) THEN LoopResult(<<>>, es, <<>>)
    ELSE
      LET severity == Severities[i]
          limit == thresholds[metric][severity]
          exceeded == Exceeds(value, limit)
      IN  IF ~exceeded
          THEN SeverityLoop_nosustain(metric, value, i + 1, es, now)
          ELSE LoopResult(<<Alert(metric, severity, value, limit)>>, es, <<>>)

SeverityLoop(metric, value, i, es, now) ==
    IF i > Len(Severities) THEN LoopResult(<<>>, es, <<>>)
    ELSE
      LET severity == Severities[i]
          limit == thresholds[metric][severity]
          exceeded == Exceeds(value, limit)
      IN  IF metric \in DOMAIN sustained
          THEN LET key == Key(metric, severity)
                   required == sustained[metric][severity]
                   r == TrackerCheck(es, key, exceeded, required, now)
                   made == <<TrackerCall(key, exceeded, required, now, r.ret)>>
               IN  IF ~r.ret
                   THEN LET rest == SeverityLoop(metric, value, i + 1,
                                                 r.exceeded_since, now)
                        IN  LoopResult(rest.alerts, rest.exceeded_since,
                                       made \o rest.tcalls)
                   ELSE LoopResult(<<Alert(metric, severity, value, limit)>>,
                                   r.exceeded_since, made)
          ELSE IF ~exceeded
               THEN SeverityLoop(metric, value, i + 1, es, now)
               ELSE LoopResult(<<Alert(metric, severity, value, limit)>>, es, <<>>)

\* "for metric, value in metrics.items()", from the j-th item on.
RECURSIVE MetricLoop(_, _, _, _)
MetricLoop(items, j, es, now) ==
    IF j > Len(items) THEN LoopResult(<<>>, es, <<>>)
    ELSE
      LET metric == items[j].metric
          value == items[j].value
      IN  IF value = NoneValue \/ metric \notin DOMAIN thresholds
          THEN MetricLoop(items, j + 1, es, now)
          ELSE LET one == SeverityLoop(metric, value, 1, es, now)
                   rest == MetricLoop(items, j + 1, one.exceeded_since, now)
               IN  LoopResult(one.alerts \o rest.alerts, rest.exceeded_since,
                              one.tcalls \o rest.tcalls)

\* check_thresholds(metrics, tracker) with time.monotonic() reading now: the
\* clock is read once per tracker call, and the readings of one call of
\* check_thresholds fall within the same second.
CheckThresholds(items, es, now) == MetricLoop(items, 1, es, now)

\* metrics.items() of a snapshot that gives every metric a value or None.
Items(snapshot) ==
    [j \in 1..Len(MetricOrder) |->
        [metric |-> MetricOrder[j], value |-> snapshot[MetricOrder[j]]]]

\* One call of check_thresholds on a fresh snapshot; r is its result.
CheckThresholdsCall ==
    \E snapshot \in [Metrics -> (1..MaxValue) \cup {NoneValue}] :
        \E r \in {CheckThresholds(Items(snapshot), exceeded_since, mono)} :
            /\ exceeded_since' = r.exceeded_since
            /\ last' = [op |-> "check_thresholds", metrics |-> snapshot,
                        pre |-> exceeded_since, now |-> mono,
                        alerts |-> r.alerts, tcalls |-> r.tcalls]
            /\ UNCHANGED <<config, programs, loop, mono, wall, last_alerted, calls, emitted>>

\* The [thresholds.<metric>] tables a configuration can give ram_percent.
RamThresholdChoices ==
    {[warning |-> 2, critical |-> 3], [warning |-> 3, critical |-> 3],
     [warning |-> 3, critical |-> 2]}

ThresholdChoices ==
    {[m \in {"cpu_percent"} |-> DefaultThresholds[m]]}
    \cup {[m \in Metrics |-> IF m = "ram_percent" THEN t ELSE DefaultThresholds[m]] :
            t \in RamThresholdChoices}

SustainedChoices ==
    {DefaultSustained,
     [m \in {"cpu_percent"} |-> [warning |-> 0, critical |-> 0]]}

InitThresh ==
    /\ thresholds \in ThresholdChoices
    /\ sustained \in SustainedChoices
    /\ alert_cooldown = DefaultCooldown
    /\ docker_idle_minutes = DefaultDockerIdle
    /\ watchlist = DefaultWatchlist
    /\ mono = 0
    /\ wall = WallStart
    /\ exceeded_since = EmptyDict
    /\ last_alerted = EmptyDict
    /\ calls = <<>>
    /\ emitted = EmptyDict
    /\ last = [op |-> "init"]
    /\ InitLoop

NextThresh == MonoTick \/ CheckThresholdsCall

SpecThresh == InitThresh /\ [][NextThresh]_vars

-----------------------------------------------------------------------------
(* check_idle_services *)

\* int(x / d) for an integer x: the quotient truncated towards zero.
Trunc(x, d) == IF x >= 0 THEN x \div d ELSE 0 - ((0 - x) \div d)

Max(a, b) == IF a >= b THEN a ELSE b

\* A CreatedAt string of "docker ps": empty, unparseable, or a timestamp,
\* which is the creation time t in seconds.
CreatedAt(kind, t) == [kind |-> kind, t |-> t]

\* A parse that lets the difference through as it is.
ParseDockerCreatedAt_signed(created_at, now) ==
    IF created_at.kind = "empty" THEN 0
    ELSE IF created_at.kind = "invalid" THEN 0
    ELSE Trunc(now - created_at.t, SecondsPerMinute)

\* _parse_docker_created_at(created_at) with the wall clock reading now.
ParseDockerCreatedAt(created_at, now) ==
    IF created_at.kind = "empty" THEN 0
    ELSE IF created_at.kind = "invalid" THEN 0
    ELSE Max(0, Trunc(now - created_at.t, SecondsPerMinute))

Container(name, created_at) == [name |-> name, created_at |-> created_at]

\* The fields of a ServiceAlert that identify it; label, detail and age_str
\* are display text.
ServiceAlert(kind, name) == [kind |-> kind, name |-> name]

\* The fields of a WatchedProcess that check_idle_services reads.
WatchedProcess(key, age_minutes, cpu_percent) ==
    [key |-> key, age_minutes |-> age_minutes, cpu_percent |-> cpu_percent]

\* A gate that wants more than the cooldown to have passed.
CooldownOver_strict(la, key, now) == now - DictGet(la, key, 0) > alert_cooldown

\* "now - last_alerted.get(key, 0) >= alert_cooldown"
CooldownOver(la, key, now) == now - DictGet(la, key, 0) >= alert_cooldown

IdleResult(results, la) == [results |-> results, last_alerted |-> la]

\* A container step that alerts without recording the time.
DockerStep_forgets(c, la, now) ==
    LET uptime == ParseDockerCreatedAt(c.created_at, now)
        key == Key("docker", c.name)
    IN  IF uptime >= docker_idle_minutes /\ CooldownOver(la, key, now)
        THEN IdleResult(<<ServiceAlert("docker", c.name)>>, la)
        ELSE IdleResult(<<>>, la)

\* The body of "for c in containers".
DockerStep(c, la, now) ==
    LET uptime == ParseDockerCreatedAt(c.created_at, now)
        key == Key("docker", c.name)
    IN  IF uptime >= docker_idle_minutes /\ CooldownOver(la, key, now)
        THEN IdleResult(<<ServiceAlert("docker", c.name)>>, DictSet(la, key, now))
        ELSE IdleResult(<<>>, la)

RECURSIVE DockerLoop(_, _, _, _)
DockerLoop(containers, j, la, now) ==
    IF j > Len(containers) THEN IdleResult(<<>>, la)
    ELSE LET one == DockerStep(containers[j], la, now)
             rest == DockerLoop(containers, j + 1, one.last_alerted, now)
         IN  IdleResult(one.results \o rest.results, rest.last_alerted)

\* A guard that lets an idle threshold of 0 through.
NeverNag_negative(idle_min) == idle_min < 0

\* "if idle_min <= 0: continue"
NeverNag(idle_min) == idle_min <= 0

\* A test that takes usage at the floor for idle.
IsActive_above(active_cpu, cpu_percent) == active_cpu > 0 /\ cpu_percent > active_cpu

\* "active_cpu > 0 and wp.cpu_percent >= active_cpu"
IsActive(active_cpu, cpu_percent) == active_cpu > 0 /\ cpu_percent >= active_cpu

\* A process step that starts the cooldown when it skips an active process.
ProcessStep_marks(wp, la, now) ==
    LET cfg == DictGet(watchlist, wp.key, EmptyDict)
        idle_min == DictGet(cfg, "idle_minutes", 0)
        alert_key == Key("proc", wp.key)
    IN  IF NeverNag(idle_min) THEN IdleResult(<<>>, la)
        ELSE IF wp.age_minutes >= idle_min
        THEN IF IsActive(DictGet(cfg, "active_cpu", 0), wp.cpu_percent)
             THEN IdleResult(<<>>, DictSet(la, alert_key, now))
             ELSE IF CooldownOver(la, alert_key, now)
                  THEN IdleResult(<<ServiceAlert("process", wp.key)>>,
                                  DictSet(la, alert_key, now))
                  ELSE IdleResult(<<>>, la)
        ELSE IdleResult(<<>>, la)

\* The body of "for wp in watched".
ProcessStep(wp, la, now) ==
    LET cfg == DictGet(watchlist, wp.key, EmptyDict)
        idle_min == DictGet(cfg, "idle_minutes", 0)
        alert_key == Key("proc", wp.key)
    IN  IF NeverNag(idle_min) THEN IdleResult(<<>>, la)
        ELSE IF wp.age_minutes >= idle_min
        THEN IF IsActive(DictGet(cfg, "active_cpu", 0), wp.cpu_percent)
             THEN IdleResult(<<>>, la)
             ELSE IF CooldownOver(la, alert_key, now)
                  THEN IdleResult(<<ServiceAlert("process", wp.key)>>,
                                  DictSet(la, alert_key, now))
                  ELSE IdleResult(<<>>, la)
        ELSE IdleResult(<<>>, la)

RECURSIVE ProcessLoop(_, _, _, _)
ProcessLoop(watched, j, la, now) ==
    IF j > Len(watched) THEN IdleResult(<<>>, la)
    ELSE LET one == ProcessStep(watched[j], la, now)
             rest == ProcessLoop(watched, j + 1, one.last_alerted, now)
         IN  IdleResult(one.results \o rest.results, rest.last_alerted)

\* check_idle_services(last_alerted, watched, containers) with time.time()
\* reading now: the alerts returned and the ledger afterwards.
CheckIdleServices(la, watched, containers, now) ==
    LET d == IF docker_idle_minutes > 0
             THEN DockerLoop(containers, 1, la, now)
             ELSE IdleResult(<<>>, la)
        p == ProcessLoop(watched, 1, d.last_alerted, now)
    IN  IdleResult(d.results \o p.results, p.last_alerted)

\* The ledger key an alert is about.
AlertKey(sa) == IF sa.kind = "docker" THEN Key("docker", sa.name)
                ELSE Key("proc", sa.name)

\* The history of alerts after the alerts of results were emitted at now.
RECURSIVE Emit(_, _, _)
Emit(em, results, now) ==
    IF results = <<>> THEN em
    ELSE Emit(DictSet(em, AlertKey(Head(results)), now), Tail(results), now)

\* The watchlist entry's active_cpu floor (0: none).
FloorOf(key) == DictGet(DictGet(watchlist, key, EmptyDict), "active_cpu", 0)

IdleMinutesOf(key) == DictGet(DictGet(watchlist, key, EmptyDict), "idle_minutes", 0)

\* The processes of the list that are past their idle threshold and were
\* passed over only because their CPU usage meets the floor.
SuppressedIn(watched) ==
    {watched[j].key : j \in {i \in 1..Len(watched) :
        /\ IdleMinutesOf(watched[i].key) > 0
        /\ watched[i].age_minutes >= IdleMinutesOf(watched[i].key)
        /\ FloorOf(watched[i].key) > 0
        /\ watched[i].cpu_percent >= FloorOf(watched[i].key)}}

\* The container lists "docker ps" gives: names are unique.
CreatedChoices ==
    {CreatedAt("timestamp", WallStart - 2 * SecondsPerMinute),
     CreatedAt("timestamp", WallStart - SecondsPerMinute)}

ContainerLists ==
    {<<>>}
    \cup {<<Container("db", c)>> : c \in CreatedChoices}
    \cup {<<Container("web", CreatedAt("empty", 0)), Container("db", c)>> :
            c \in {CreatedAt("timestamp", WallStart - 2 * SecondsPerMinute)}}

\* The lists scan_watched_processes gives: one record per watchlist key.
\* CPU usage below and at the active_cpu floor of [watchlist.zoom].
CpuChoices == {DefaultWatchlist["zoom"].active_cpu - 1,
               DefaultWatchlist["zoom"].active_cpu}

WatchedOf(key) ==
    {WatchedProcess(key, a, c) : a \in 0..MaxAge, c \in CpuChoices}

WatchedLists ==
    {<<>>}
    \cup {<<w>> : w \in WatchedOf("zoom") \cup WatchedOf("code")}
    \cup {<<WatchedProcess("code", MaxAge, c), WatchedProcess("zoom", MaxAge, c)>> :
            c \in CpuChoices}

\* The wall clock advances.
WallTick ==
    /\ wall < WallStart + MaxWall
    /\ wall' = wall + 1
    /\ UNCHANGED <<config, programs, loop, mono, exceeded_since, last_alerted, calls, emitted, last>>

\* One call of check_idle_services on a scan drawn from the lists given; r
\* is its result.
CheckIdleServicesOver(watchedLists, containerLists) ==
    \E watched \in watchedLists, containers \in containerLists :
        \E r \in {CheckIdleServices(last_alerted, watched, containers, wall)} :
            /\ last_alerted' = r.last_alerted
            /\ emitted' = Emit(emitted, r.results, wall)
            /\ last' = [op |-> "check_idle_services", watched |-> watched,
                        containers |-> containers, now |-> wall,
                        results |-> r.results, pre |-> last_alerted,
                        pre_emitted |-> emitted,
                        prev_suppressed |->
                            IF last.op = "check_idle_services"
                            THEN SuppressedIn(last.watched) ELSE {}]
            /\ UNCHANGED <<config, programs, loop, mono, wall, exceeded_since, calls>>

\* One call of check_idle_services on this tick's scan.
CheckIdleServicesCall == CheckIdleServicesOver(WatchedLists, ContainerLists)

\* The [watchlist.zoom] tables of a configuration: with and without a floor.
WatchlistChoices ==
    {[k \in {"zoom", "code"} |->
        IF k = "zoom" THEN z ELSE DefaultWatchlist["code"]] :
     z \in {DefaultWatchlist["zoom"],
            [label |-> "Zoom", idle_minutes |-> 1]}}

\* alert_cooldown and docker_idle_minutes of a configuration: 0 turns the
\* cooldown, or the container reminders, off.
IdleSettingChoices ==
    {<<DefaultCooldown, DefaultDockerIdle>>, <<0, DefaultDockerIdle>>,
     <<DefaultCooldown, 0>>}

InitIdle ==
    /\ thresholds = DefaultThresholds
    /\ sustained = DefaultSustained
    /\ \E c \in IdleSettingChoices :
        alert_cooldown = c[1] /\ docker_idle_minutes = c[2]
    /\ watchlist \in WatchlistChoices
    /\ mono = 0
    /\ wall = WallStart
    /\ exceeded_since = EmptyDict
    /\ last_alerted = EmptyDict
    /\ calls = <<>>
    /\ emitted = EmptyDict
    /\ last = [op |-> "init"]
    /\ InitLoop

NextIdle == WallTick \/ CheckIdleServicesCall

SpecIdle == InitIdle /\ [][NextIdle]_vars

\* The CreatedAt strings of a container that "docker ps" can print: a
\* timestamp two minutes old, nothing, text that is no timestamp, and
\* timestamps half a minute and three minutes ahead of the clock.
MalformedChoices ==
    {CreatedAt("timestamp", WallStart - 2 * SecondsPerMinute),
     CreatedAt("empty", 0), CreatedAt("invalid", 0),
     CreatedAt("timestamp", WallStart + SecondsPerMinute \div 2),
     CreatedAt("timestamp", WallStart + 3 * SecondsPerMinute)}

DockerLists ==
    {<<Container("web", c)>> : c \in MalformedChoices}
    \cup {<<Container("db", CreatedAt("timestamp", WallStart - 2 * SecondsPerMinute)),
            Container("web", c)>> : c \in MalformedChoices}

\* One call of check_idle_services on a tick that found containers only.
CheckContainersCall == CheckIdleServicesOver({<<>>}, DockerLists)

NextDocker == WallTick \/ CheckContainersCall

SpecDocker == InitIdle /\ [][NextDocker]_vars

-----------------------------------------------------------------------------
(* Claims about SustainedTracker *)

\* The calls of the log made for key, as indexes into the log.
CallsFor(key) == {i \in 1..Len(calls) : calls[i].key = key}

\* The index of the last false call for key (0 when there is none).
LastFalse(key) ==
    LET F == {i \in CallsFor(key) : ~calls[i].is_exceeded}
    IN  IF F = {} THEN 0 ELSE CHOOSE i \in F : \A j \in F : j <= i

\* The time of the first true call for key since the last false call for it.
RunStart(key) ==
    LET T == {i \in CallsFor(key) : i > LastFalse(key)}
        first == CHOOSE i \in T : \A j \in T : i <= j
    IN  calls[first].now

\* C1: check(key, True, n) returns true exactly when now - start >= n, start
\* being the time of the first true call for key since its last false call;
\* with n = 0 the call returns true.
C1_SustainedDuration ==
    (last.op = "check" /\ last.is_exceeded) =>
        /\ last.ret = ((last.now - RunStart(last.key)) >= last.required)
        /\ (last.required = 0 => last.ret)

\* A true call that returns true for a positive duration, measured from a
\* start that follows an earlier false call for the same key.
C1_Witness ==
    /\ last.op = "check" /\ last.is_exceeded /\ last.ret
    /\ last.required > 0
    /\ LastFalse(last.key) > 0
    /\ \E i \in CallsFor(last.key) : i < LastFalse(last.key) /\ calls[i].is_exceeded

\* C2: check(key, False, n) returns false and leaves no entry for key,
\* whatever the tracker held before.
C2_FalseClears ==
    (last.op = "check" /\ ~last.is_exceeded) =>
        /\ last.ret = FALSE
        /\ last.key \notin DOMAIN exceeded_since

\* A false call on a key that had an entry, with other keys present.
C2_Witness ==
    /\ last.op = "check" /\ ~last.is_exceeded
    /\ last.key \in DOMAIN last.pre
    /\ last.required > 0
    /\ exceeded_since # EmptyDict

-----------------------------------------------------------------------------
(* Claims about check_thresholds *)

IsThresholdCall == last.op = "check_thresholds"

\* The alerts of the last call that are about metric m, in order.
AlertsFor(m) == SelectSeq(last.alerts, LAMBDA a : a.metric = m)

HasAlert(m, severity) ==
    \E k \in 1..Len(last.alerts) :
        last.alerts[k].metric = m /\ last.alerts[k].severity = severity

\* The metrics the last call evaluated: a value and a threshold spec.
Evaluated(m) == last.metrics[m] # NoneValue /\ m \in DOMAIN thresholds

\* The gate of severity s for metric m, from the snapshot and the tracker as
\* it was before the call: the value reaches the limit and, for a sustained
\* metric, has done so for the required duration.
Gate(m, s) ==
    LET reached == last.metrics[m] >= thresholds[m][s]
        key == Key(m, s)
        start == IF key \in DOMAIN last.pre THEN last.pre[key] ELSE last.now
    IN  IF m \in DOMAIN sustained
        THEN reached /\ (last.now - start) >= sustained[m][s]
        ELSE reached

\* C3: one call of check_thresholds gives each metric at most one alert, never
\* a warning and a critical one together, and the alert is of the highest
\* severity whose gate is true.
C3_OneAlertPerMetric ==
    IsThresholdCall =>
        \A m \in Metrics :
            /\ Len(AlertsFor(m)) <= 1
            /\ ~(HasAlert(m, "critical") /\ HasAlert(m, "warning"))
            /\ ~Evaluated(m) => AlertsFor(m) = <<>>
            /\ Evaluated(m) =>
                /\ HasAlert(m, "critical") <=> Gate(m, "critical")
                /\ HasAlert(m, "warning") <=>
                       (~Gate(m, "critical") /\ Gate(m, "warning"))

\* A value whose critical and warning gates are both true, giving the one
\* critical alert, for a sustained and for a plain metric.
C3_Witness ==
    /\ IsThresholdCall
    /\ \A m \in Metrics :
        /\ Evaluated(m) /\ Gate(m, "critical") /\ Gate(m, "warning")
        /\ Len(AlertsFor(m)) = 1 /\ HasAlert(m, "critical")
    /\ sustained["cpu_percent"]["critical"] > 0

\* The reference classification of a value against warning <= critical.
Classify(m, v, warning, critical) ==
    IF v >= critical
    THEN <<[metric |-> m, severity |-> "critical", value |-> v,
            threshold |-> critical]>>
    ELSE IF v >= warning
         THEN <<[metric |-> m, severity |-> "warning", value |-> v,
                 threshold |-> warning]>>
         ELSE <<>>

\* An alert without its display unit.
Bare(a) == [metric |-> a.metric, severity |-> a.severity, value |-> a.value,
            threshold |-> a.threshold]

BareAlertsFor(m) == [k \in 1..Len(AlertsFor(m)) |-> Bare(AlertsFor(m)[k])]

Plain(m) ==
    /\ Evaluated(m)
    /\ m \notin DOMAIN sustained
    /\ thresholds[m].warning <= thresholds[m].critical

\* C4: for a metric with warning <= critical and no sustained entry, the
\* alerts are the reference classification of the value, limits included,
\* and the alert carries the snapshot's value.
C4_Classification ==
    IsThresholdCall =>
        \A m \in Metrics :
            Plain(m) =>
                BareAlertsFor(m) = Classify(m, last.metrics[m],
                                            thresholds[m].warning,
                                            thresholds[m].critical)

\* A value equal to the warning limit, below the critical one, that gives
\* the warning alert.
C4_Witness ==
    /\ IsThresholdCall
    /\ Plain("ram_percent")
    /\ last.metrics["ram_percent"] = thresholds["ram_percent"].warning
    /\ last.metrics["ram_percent"] < thresholds["ram_percent"].critical
    /\ HasAlert("ram_percent", "warning")

\* The cases of C5: a sustained metric whose value reaches the limit of
\* severity s, the required duration being positive.
SustainedReached(m, s) ==
    /\ Evaluated(m)
    /\ m \in DOMAIN sustained
    /\ sustained[m][s] > 0
    /\ last.metrics[m] >= thresholds[m][s]

HigherFired(m, s) == s = "warning" /\ HasAlert(m, "critical")

\* C5: with a positive required duration, the first tick on which the value
\* reaches the limit gives no alert of that severity, and a tick on which the
\* recorded start is at least the duration in the past gives one, unless a
\* higher severity fired.
C5_SustainedGate ==
    IsThresholdCall =>
        \A m \in Metrics : \A i \in 1..Len(Severities) :
            LET s == Severities[i]
                key == Key(m, s)
            IN  SustainedReached(m, s) =>
                    /\ key \notin DOMAIN last.pre => ~HasAlert(m, s)
                    /\ (key \in DOMAIN last.pre
                        /\ last.now - last.pre[key] >= sustained[m][s])
                       => (HasAlert(m, s) \/ HigherFired(m, s))

\* A warning alert of a sustained metric, given after the duration.
C5_Witness ==
    /\ IsThresholdCall
    /\ SustainedReached("cpu_percent", "warning")
    /\ Key("cpu_percent", "warning") \in DOMAIN last.pre
    /\ last.now - last.pre[Key("cpu_percent", "warning")]
           >= sustained["cpu_percent"]["warning"]
    /\ HasAlert("cpu_percent", "warning")

-----------------------------------------------------------------------------
(* Claims about check_idle_services *)

IsIdleCall == last.op = "check_idle_services"

\* The last call returned an alert whose ledger key is key.
Alerted(key) ==
    \E k \in 1..Len(last.results) : AlertKey(last.results[k]) = key

ContainersOfCall == {last.containers[j] : j \in 1..Len(last.containers)}

WatchedOfCall == {last.watched[j] : j \in 1..Len(last.watched)}

UptimeOf(c) == ParseDockerCreatedAt(c.created_at, last.now)

\* The idle condition of a container: reminders are on and its uptime has
\* reached the threshold.
DockerIdle(c) == docker_idle_minutes > 0 /\ UptimeOf(c) >= docker_idle_minutes

PastThreshold(wp) ==
    IdleMinutesOf(wp.key) > 0 /\ wp.age_minutes >= IdleMinutesOf(wp.key)

MeetsFloor(wp) == FloorOf(wp.key) > 0 /\ wp.cpu_percent >= FloorOf(wp.key)

\* The idle condition of a watched process: past a positive threshold and not
\* in active use.
ProcessIdle(wp) == PastThreshold(wp) /\ ~MeetsFloor(wp)

\* The idle condition of a ledger key at the last call.
IdleCondition(key) ==
    \/ \E c \in ContainersOfCall : Key("docker", c.name) = key /\ DockerIdle(c)
    \/ \E wp \in WatchedOfCall : Key("proc", wp.key) = key /\ ProcessIdle(wp)

IdleKeys ==
    {Key("docker", c.name) : c \in ContainersOfCall}
    \cup {Key("proc", wp.key) : wp \in WatchedOfCall}

\* At least alert_cooldown seconds have passed since the last alert emitted
\* for key before the last call (none emitted: always so).
CooldownPassed(key) ==
    key \in DOMAIN last.pre_emitted =>
        last.now - last.pre_emitted[key] >= alert_cooldown

\* C6: over the calls sharing one ledger, an alert for a key is not emitted
\* while less than alert_cooldown seconds have passed since the last alert for
\* that key, and is emitted at the first evaluation at which the cooldown has
\* passed and the idle condition holds.
C6_Cooldown ==
    IsIdleCall =>
        \A key \in IdleKeys :
            /\ Alerted(key) => CooldownPassed(key)
            /\ (IdleCondition(key) /\ CooldownPassed(key)) => Alerted(key)

\* An alert emitted again, a full positive cooldown after the last one for
\* the same key.
C6_Witness ==
    /\ IsIdleCall
    /\ alert_cooldown > 0
    /\ \E key \in IdleKeys :
        /\ key \in DOMAIN last.pre_emitted
        /\ last.now - last.pre_emitted[key] = alert_cooldown
        /\ Alerted(key)

\* The three parts of C7 for one container of the last call.
DockerFirstAlert(c) ==
    (UptimeOf(c) >= docker_idle_minutes
     /\ Key("docker", c.name) \notin DOMAIN last.pre)
    => /\ ServiceAlert("docker", c.name) \in
              {last.results[k] : k \in 1..Len(last.results)}
       /\ Key("docker", c.name) \in DOMAIN last_alerted
       /\ last_alerted[Key("docker", c.name)] = last.now

DockerImmediateRepeat(c) ==
    (Key("docker", c.name) \in DOMAIN last.pre
     /\ last.pre[Key("docker", c.name)] = last.now)
    => ~Alerted(Key("docker", c.name))

DockerBelowThreshold(c) ==
    UptimeOf(c) < docker_idle_minutes
    => /\ ~Alerted(Key("docker", c.name))
       /\ Key("docker", c.name) \in DOMAIN last_alerted
              <=> Key("docker", c.name) \in DOMAIN last.pre
       /\ Key("docker", c.name) \in DOMAIN last.pre
              => last_alerted[Key("docker", c.name)]
                     = last.pre[Key("docker", c.name)]

\* C7 as stated: every container whose uptime has reached docker_idle_minutes
\* and whose key is absent from the ledger is alerted and recorded at now; an
\* immediate re-evaluation alerts nothing; a container below the threshold
\* gives no alert and no ledger entry.
C7_Original ==
    IsIdleCall =>
        \A c \in ContainersOfCall :
            DockerFirstAlert(c) /\ DockerImmediateRepeat(c)
            /\ DockerBelowThreshold(c)

\* C7, amended: the same, the first part for docker_idle_minutes > 0 and the
\* second for alert_cooldown > 0; with docker_idle_minutes = 0 no container
\* is alerted or recorded.
C7_DockerAlert ==
    IsIdleCall =>
        \A c \in ContainersOfCall :
            /\ docker_idle_minutes > 0 => DockerFirstAlert(c)
            /\ alert_cooldown > 0 => DockerImmediateRepeat(c)
            /\ DockerBelowThreshold(c)
            /\ docker_idle_minutes <= 0 =>
                /\ ~Alerted(Key("docker", c.name))
                /\ Key("docker", c.name) \notin DOMAIN last_alerted

\* A container alerted at one evaluation and passed over at the next, made at
\* the same instant with the updated ledger.
C7_Witness ==
    /\ IsIdleCall
    /\ docker_idle_minutes > 0 /\ alert_cooldown > 0
    /\ \E c \in ContainersOfCall :
        /\ UptimeOf(c) >= docker_idle_minutes
        /\ Key("docker", c.name) \in DOMAIN last.pre
        /\ last.pre[Key("docker", c.name)] = last.now
        /\ ~Alerted(Key("docker", c.name))

\* C8: a watchlist entry with idle_minutes = 0 never gives a process alert,
\* and its key proc:<key> is never written to the ledger.
C8_NeverNag ==
    \A key \in DOMAIN watchlist :
        IdleMinutesOf(key) = 0 =>
            /\ Key("proc", key) \notin DOMAIN last_alerted
            /\ IsIdleCall => ~Alerted(Key("proc", key))

\* An old process of such an entry, evaluated with a ledger that holds
\* other keys.
C8_Witness ==
    /\ IsIdleCall
    /\ last.pre # EmptyDict
    /\ \E wp \in WatchedOfCall :
        /\ IdleMinutesOf(wp.key) = 0
        /\ wp.age_minutes > 0
        /\ ~Alerted(Key("proc", wp.key))

\* C9: a process past its idle threshold whose CPU usage meets the floor is
\* not alerted, and its ledger entry stays as it was: absent, or the same
\* timestamp.
C9_ActiveSkip ==
    IsIdleCall =>
        \A wp \in WatchedOfCall :
            (PastThreshold(wp) /\ MeetsFloor(wp)) =>
                /\ ~Alerted(Key("proc", wp.key))
                /\ Key("proc", wp.key) \in DOMAIN last_alerted
                       <=> Key("proc", wp.key) \in DOMAIN last.pre
                /\ Key("proc", wp.key) \in DOMAIN last.pre
                       => last_alerted[Key("proc", wp.key)]
                              = last.pre[Key("proc", wp.key)]

\* An active process passed over although its cooldown is over, its ledger
\* entry kept.
C9_Witness ==
    /\ IsIdleCall
    /\ \E wp \in WatchedOfCall :
        /\ PastThreshold(wp) /\ MeetsFloor(wp)
        /\ wp.cpu_percent = FloorOf(wp.key)
        /\ Key("proc", wp.key) \in DOMAIN last.pre
        /\ last.now - last.pre[Key("proc", wp.key)] >= alert_cooldown
        /\ last_alerted[Key("proc", wp.key)] = last.pre[Key("proc", wp.key)]

\* The case of C10: the process was passed over for its usage at the
\* evaluation before, and is now past its threshold with usage below the
\* floor.
UsageDropped(wp) ==
    /\ wp.key \in last.prev_suppressed
    /\ PastThreshold(wp)
    /\ FloorOf(wp.key) > 0
    /\ wp.cpu_percent < FloorOf(wp.key)

\* C10: when usage drops below the floor after evaluations that passed the
\* process over for its usage, and no alert for its key was emitted within
\* the last alert_cooldown seconds, the alert is emitted at once.
C10_NoCooldownFromSkip ==
    IsIdleCall =>
        \A wp \in WatchedOfCall :
            (UsageDropped(wp) /\ CooldownPassed(Key("proc", wp.key)))
                => Alerted(Key("proc", wp.key))

\* The alert emitted right after an evaluation that passed the process over,
\* for a key that was alerted before and whose cooldown has run out.
C10_Witness ==
    /\ IsIdleCall
    /\ alert_cooldown > 0
    /\ \E wp \in WatchedOfCall :
        /\ UsageDropped(wp)
        /\ Key("proc", wp.key) \in DOMAIN last.pre_emitted
        /\ Alerted(Key("proc", wp.key))

-----------------------------------------------------------------------------
(* scan_watched_processes *)

\* The length of the process table.
MaxProcs == 2

\* proc.info["name"] of a process that denies access: None.
NoneStr == "<None>"

UpperToLower ==
    [c \in {"A", "B", "C", "D", "E", "F", "G", "H", "I", "J", "K", "L", "M",
            "N", "O", "P", "Q", "R", "S", "T", "U", "V", "W", "X", "Y", "Z"} |->
        CASE c = "A" -> "a" [] c = "B" -> "b" [] c = "C" -> "c" [] c = "D" -> "d"
          [] c = "E" -> "e" [] c = "F" -> "f" [] c = "G" -> "g" [] c = "H" -> "h"
          [] c = "I" -> "i" [] c = "J" -> "j" [] c = "K" -> "k" [] c = "L" -> "l"
          [] c = "M" -> "m" [] c = "N" -> "n" [] c = "O" -> "o" [] c = "P" -> "p"
          [] c = "Q" -> "q" [] c = "R" -> "r" [] c = "S" -> "s" [] c = "T" -> "t"
          [] c = "U" -> "u" [] c = "V" -> "v" [] c = "W" -> "w" [] c = "X" -> "x"
          [] c = "Y" -> "y" [] c = "Z" -> "z"]

\* str.lower()
RECURSIVE Lower(_)
Lower(s) ==
    IF s = "" THEN ""
    ELSE LET c == SubSeq(s, 1, 1)
         IN  (IF c \in DOMAIN UpperToLower THEN UpperToLower[c] ELSE c)
             \o Lower(SubSeq(s, 2, Len(s)))

\* "key in s" for strings
Contains(key, s) ==
    \E i \in 1..(Len(s) - Len(key) + 1) : SubSeq(s, i, i + Len(key) - 1) = key

\* "(proc.info["name"] or "").lower()"
ProcName(proc) == Lower(IF proc.name = NoneStr THEN "" ELSE proc.name)

\* The keys of DEFAULT_CONFIG["watchlist"], in the order the dict lists them.
WatchOrder == <<"zoom", "slack", "code">>

\* watchlist.items(): the keys of the configured watchlist, in dict order.
WatchlistItems == SelectSeq(WatchOrder, LAMBDA k : k \in DOMAIN watchlist)

\* The entry of proc.info for one process: name, create_time, cpu_percent;
\* NoneStr and NoneValue stand for a reading that is None.
ProcInfo(name, create_time, cpu_percent) ==
    [name |-> name, create_time |-> create_time, cpu_percent |-> cpu_percent]

\* What the scan holds after some processes: accum, the keys of accum in
\* insertion order, and whether an exception has left the function.
ScanState(accum, order, raised) ==
    [accum |-> accum, order |-> order, raised |-> raised]

Min(a, b) == IF a <= b THEN a ELSE b

\* "proc.info.get("cpu_percent", 0.0) or 0.0"
CpuOrZero(cpu_percent) == IF cpu_percent = NoneValue THEN 0 ELSE cpu_percent

\* "for watch_key, cfg in watchlist.items()", from the i-th key on: the index
\* of the first key that is in pname, at which the loop breaks (0: no key).
RECURSIVE KeyLoop(_, _)
KeyLoop(pname, i) ==
    IF i > Len(WatchlistItems) THEN 0
    ELSE IF ~Contains(WatchlistItems[i], pname) THEN KeyLoop(pname, i + 1)
    ELSE i

\* A step that adds the usage of a process to the total twice.
ScanStep_twice(proc, st) ==
    LET i == KeyLoop(ProcName(proc), 1)
        watch_key == WatchlistItems[i]
        entry == IF watch_key \in DOMAIN st.accum THEN st.accum[watch_key]
                 ELSE [create_time |-> proc.create_time, cpu_total |-> 0]
    IN  IF st.raised \/ i = 0 THEN st
        ELSE IF entry.create_time = NoneValue \/ proc.create_time = NoneValue
        THEN ScanState(st.accum, st.order, TRUE)
        ELSE ScanState(
                DictSet(st.accum, watch_key,
                        [create_time |-> Min(entry.create_time, proc.create_time),
                         cpu_total |-> entry.cpu_total
                                       + 2 * CpuOrZero(proc.cpu_percent)]),
                IF watch_key \in DOMAIN st.accum THEN st.order
                ELSE Append(st.order, watch_key),
                FALSE)

\* The body of "for proc in psutil.process_iter(...)". min() of a creation
\* time that is None raises TypeError, which nothing catches.
ScanStep(proc, st) ==
    LET i == KeyLoop(ProcName(proc), 1)
        watch_key == WatchlistItems[i]
        entry == IF watch_key \in DOMAIN st.accum THEN st.accum[watch_key]
                 ELSE [create_time |-> proc.create_time, cpu_total |-> 0]
    IN  IF st.raised \/ i = 0 THEN st
        ELSE IF entry.create_time = NoneValue \/ proc.create_time = NoneValue
        THEN ScanState(st.accum, st.order, TRUE)
        ELSE ScanState(
                DictSet(st.accum, watch_key,
                        [create_time |-> Min(entry.create_time, proc.create_time),
                         cpu_total |-> entry.cpu_total
                                       + CpuOrZero(proc.cpu_percent)]),
                IF watch_key \in DOMAIN st.accum THEN st.order
                ELSE Append(st.order, watch_key),
                FALSE)

RECURSIVE ScanLoop(_, _, _)
ScanLoop(table, j, st) ==
    IF j > Len(table) THEN st
    ELSE ScanLoop(table, j + 1, ScanStep(table[j], st))

\* "age_minutes = (now - data["create_time"]) / 60": creation times lie whole
\* minutes before now, so the quotient is exact.
AgeMinutes(now, create_time) == (now - create_time) \div SecondsPerMinute

\* What scan_watched_processes gives: the records found, or an exception.
ScanResult(found, raised) == [found |-> found, raised |-> raised]

\* scan_watched_processes() over the process table, time.time() reading now.
\* data["cfg"]["label"] raises KeyError for an entry without a label.
ScanWatchedProcesses(table, now) ==
    LET st == ScanLoop(table, 1, ScanState(EmptyDict, <<>>, FALSE))
    IN  IF st.raised \/ \E k \in DOMAIN st.accum : "label" \notin DOMAIN watchlist[k]
        THEN ScanResult(<<>>, TRUE)
        ELSE ScanResult(
                [j \in 1..Len(st.order) |->
                    WatchedProcess(st.order[j],
                                   AgeMinutes(now, st.accum[st.order[j]].create_time),
                                   st.accum[st.order[j]].cpu_total)],
                FALSE)

\* The creation times of the live processes: two minutes and one minute
\* before the scan.
CreateTimes == {WallStart - 2 * SecondsPerMinute, WallStart - SecondsPerMinute}

\* The processes psutil.process_iter lists: the Zoom client and its helper
\* with every reading, a reading that is None (access denied), a name that
\* holds two watchlist keys, and a process no key matches.
ProcChoices ==
    {ProcInfo(n, t, c) : n \in {"Zoom", "zoom-helper"}, t \in CreateTimes,
                         c \in {1, 2}}
    \cup {ProcInfo("zoom-helper", WallStart - SecondsPerMinute, NoneValue),
          ProcInfo("Zoom", NoneValue, 1),
          ProcInfo(NoneStr, WallStart - SecondsPerMinute, 1),
          ProcInfo("zoom-vscode", WallStart - 2 * SecondsPerMinute, 1),
          ProcInfo("code", WallStart - SecondsPerMinute, 2),
          ProcInfo("bash", WallStart - 2 * SecondsPerMinute, 2)}

\* A process starts: the table lists it after the ones it already has.
Spawn ==
    \E p \in ProcChoices :
        /\ Len(procs) < MaxProcs
        /\ procs' = Append(procs, p)
        /\ UNCHANGED <<config, programs, frame, notified, btop_opened_at, mono, wall,
                       exceeded_since, last_alerted, calls, emitted, last>>

\* One call of scan_watched_processes; r is its result.
ScanCall ==
    \E r \in {ScanWatchedProcesses(procs, wall)} :
        /\ last' = [op |-> "scan", table |-> procs, now |-> wall,
                    found |-> r.found, raised |-> r.raised]
        /\ UNCHANGED <<config, programs, loop, mono, wall, exceeded_since, last_alerted,
                       calls, emitted>>

InitScan ==
    /\ thresholds = DefaultThresholds
    /\ sustained = DefaultSustained
    /\ alert_cooldown = DefaultCooldown
    /\ docker_idle_minutes = DefaultDockerIdle
    /\ watchlist \in {DefaultWatchlist} \cup WatchlistChoices
    /\ mono = 0
    /\ wall = WallStart
    /\ exceeded_since = EmptyDict
    /\ last_alerted = EmptyDict
    /\ calls = <<>>
    /\ emitted = EmptyDict
    /\ last = [op |-> "init"]
    /\ InitLoop

NextScan == Spawn \/ ScanCall

SpecScan == InitScan /\ [][NextScan]_vars

-----------------------------------------------------------------------------
(* Claims about scan_watched_processes *)

IsScan == last.op = "scan"

ProcsOfScan == 1..Len(last.table)

\* The processes of the scanned table whose lower-cased name holds key.
Matching(key) == {j \in ProcsOfScan : Contains(key, ProcName(last.table[j]))}

\* The keys that come before key in the watchlist.
KeysBefore(key) ==
    {WatchlistItems[i] : i \in {h \in 1..Len(WatchlistItems) :
        \E g \in (h + 1)..Len(WatchlistItems) : WatchlistItems[g] = key}}

\* The processes counted for key: those it matches that no earlier key of
\* the watchlist matches.
Assigned(key) ==
    {j \in Matching(key) : \A k \in KeysBefore(key) : j \notin Matching(k)}

RecordsFor(key) == {i \in 1..Len(last.found) : last.found[i].key = key}

OldestOf(S) ==
    CHOOSE t \in {last.table[j].create_time : j \in S} :
        \A j \in S : t <= last.table[j].create_time

RECURSIVE CpuSum(_)
CpuSum(S) ==
    IF S = {} THEN 0
    ELSE LET j == CHOOSE x \in S : TRUE
         IN  CpuOrZero(last.table[j].cpu_percent) + CpuSum(S \ {j})

\* The scan gave exactly the record of key that the processes of S call for.
OneRecordFrom(key, S) ==
    IF S = {} THEN RecordsFor(key) = {}
    ELSE /\ Cardinality(RecordsFor(key)) = 1
         /\ \A i \in RecordsFor(key) :
              /\ last.found[i].age_minutes = AgeMinutes(last.now, OldestOf(S))
              /\ last.found[i].cpu_percent = CpuSum(S)

\* C11 as stated: a scan that returns gives one record for each key that is
\* a substring of the lower-cased name of some process and none for the other
\* keys, its age from the oldest and its usage the sum of the processes the
\* key matches.
C11_Original ==
    (IsScan /\ ~last.raised) =>
        \A key \in DOMAIN watchlist : OneRecordFrom(key, Matching(key))

\* C11, amended: the same over the processes counted for the key, a process
\* being counted for the first key of the watchlist that its lower-cased name
\* holds, and for no other.
C11_ScanRecords ==
    (IsScan /\ ~last.raised) =>
        /\ \A key \in DOMAIN watchlist : OneRecordFrom(key, Assigned(key))
        /\ \A i \in 1..Len(last.found) : last.found[i].key \in DOMAIN watchlist

\* The Zoom client and a newer process whose name holds two keys, both
\* counted for zoom: one record, its age that of the client.
C11_Witness ==
    /\ IsScan /\ ~last.raised
    /\ Cardinality(Assigned("zoom")) = 2
    /\ Matching("code") # {} /\ Assigned("code") = {}
    /\ \E j \in Assigned("zoom") : last.table[j].name = "Zoom"
    /\ \E j, h \in Assigned("zoom") :
           last.table[j].create_time < last.table[h].create_time
    /\ Len(last.found) = 1
    /\ last.found[1].age_minutes = 2

\* A process all of whose readings are there.
Readable(p) ==
    p.name # NoneStr /\ p.create_time # NoneValue /\ p.cpu_percent # NoneValue

\* C12: a scan never fails because of a single process: it returns, and what
\* it returns are the records of the processes that are left when those with
\* a name, a creation time or a CPU reading that is None are skipped.
C12_SkipsUnreadable ==
    IsScan =>
        /\ ~last.raised
        /\ last.found =
               ScanWatchedProcesses(SelectSeq(last.table, Readable), last.now).found

-----------------------------------------------------------------------------
(* Claims about _parse_docker_created_at *)

\* The CreatedAt string is empty or is no timestamp.
Unparseable(c) == c.created_at.kind \in {"empty", "invalid"}

\* The CreatedAt string is a timestamp ahead of the clock.
CreatedAhead(c) == c.created_at.kind = "timestamp" /\ c.created_at.t > last.now

\* The last call gave no alert for the container and left its ledger entry
\* as it was.
DockerUntouched(c) ==
    /\ ~Alerted(Key("docker", c.name))
    /\ Key("docker", c.name) \in DOMAIN last_alerted
           <=> Key("docker", c.name) \in DOMAIN last.pre
    /\ Key("docker", c.name) \in DOMAIN last.pre
           => last_alerted[Key("docker", c.name)] = last.pre[Key("docker", c.name)]

\* C13: an empty or unparseable created_at gives an uptime of 0; no uptime is
\* negative, a creation time ahead of the clock giving 0; and with a positive
\* docker_idle_minutes such a container gets no alert and no ledger write.
C13_MalformedCreatedAt ==
    IsIdleCall =>
        \A c \in ContainersOfCall :
            /\ UptimeOf(c) >= 0
            /\ (Unparseable(c) \/ CreatedAhead(c)) =>
                /\ UptimeOf(c) = 0
                /\ docker_idle_minutes > 0 => DockerUntouched(c)

\* A container that was alerted when its timestamp was readable and is
\* passed over, the cooldown being over, when its timestamp is more than a
\* minute ahead of the clock; another container is alerted by the same call.
C13_Witness ==
    /\ IsIdleCall
    /\ docker_idle_minutes > 0
    /\ Len(last.results) > 0
    /\ \E c \in ContainersOfCall :
        /\ CreatedAhead(c)
        /\ c.created_at.t - last.now > SecondsPerMinute
        /\ Key("docker", c.name) \in DOMAIN last.pre
        /\ last.now - last.pre[Key("docker", c.name)] >= alert_cooldown
        /\ DockerUntouched(c)

-----------------------------------------------------------------------------
(* main: the monitoring loop *)

\* How a run of an external command ends: it runs, the command is not
\* installed (FileNotFoundError), it exits with an error, or it does not end
\* within the timeout (TimeoutExpired).
Outcomes == {"ok", "missing", "failed", "timeout"}

\* _get_running_docker_containers(): the containers of the "docker ps" output
\* when the command runs, an empty list when it does not.
GetRunningDockerContainers(outcome, running) ==
    IF outcome = "ok" THEN running ELSE <<>>

\* The locals of main() between two ticks: nothing collected. With them,
\* what the tick has seen: the containers that are running, whether "docker
\* ps" ran, the alerts check_thresholds gave, the clock readings at its start,
\* at check_thresholds and at check_idle_services, the tracker and the ledger
\* before these, and the external commands that have failed.
IdleFrame(btop_on_critical) ==
    [pc |-> "collect", btop_on_critical |-> btop_on_critical,
     metrics |-> <<>>, running |-> <<>>, docker_ok |-> TRUE,
     containers |-> <<>>, watched |-> <<>>, alerts |-> <<>>,
     tick_alerts |-> <<>>, has_critical |-> FALSE, service_alerts |-> <<>>,
     started |-> 0, check_now |-> 0, tracker_pre |-> EmptyDict,
     idle_now |-> 0, idle_pre |-> EmptyDict, failed |-> {}, at |-> "none"]

\* The snapshots collect_metrics gives: all calm, the CPU at its critical
\* limit, the CPU at its critical and the RAM at its warning limit.
LoopSnapshots ==
    {[m \in Metrics |-> 1],
     [m \in Metrics |-> IF m = "cpu_percent" THEN 3 ELSE 1],
     [m \in Metrics |-> IF m = "cpu_percent" THEN 3 ELSE 2]}

\* The containers that are running: none, or one created two minutes ago.
RunningLists ==
    {<<>>, <<Container("db", CreatedAt("timestamp",
                                       WallStart - 2 * SecondsPerMinute))>>}

\* Both clocks advance by a second.
TimePasses ==
    /\ wall < WallStart + MaxWall
    /\ mono < MaxMono
    /\ wall' = wall + 1
    /\ mono' = mono + 1
    /\ UNCHANGED <<config, programs, loop, exceeded_since, last_alerted, calls, emitted, last>>

\* main, lines 617-621: collect_metrics(), scan_watched_processes() and
\* _get_running_docker_containers(). An exception of the scan leaves main.
Collect ==
    /\ frame.pc = "collect"
    /\ \E snapshot \in LoopSnapshots, running \in RunningLists, outcome \in Outcomes :
        \E scan \in {ScanWatchedProcesses(procs, wall)} :
            frame' = IF scan.raised
                     THEN [frame EXCEPT !.pc = "crashed"]
                     ELSE [frame EXCEPT !.pc = "check",
                                        !.started = wall,
                                        !.failed = IF outcome = "ok" THEN {}
                                                   ELSE {"docker"},
                                        !.metrics = snapshot,
                                        !.running = running,
                                        !.docker_ok = (outcome = "ok"),
                                        !.containers =
                                            GetRunningDockerContainers(outcome, running),
                                        !.watched = scan.found]
    /\ UNCHANGED <<config, programs, procs, notified, btop_opened_at, mono, wall,
                   exceeded_since, last_alerted, calls, emitted, last>>

\* main, line 626: alerts = check_thresholds(metrics, sustained).
CheckStep ==
    /\ frame.pc = "check"
    /\ \E r \in {CheckThresholds(Items(frame.metrics), exceeded_since, mono)} :
        /\ exceeded_since' = r.exceeded_since
        /\ frame' = [frame EXCEPT !.pc = IF r.alerts = <<>> THEN "btop" ELSE "notify",
                                  !.alerts = r.alerts,
                                  !.tick_alerts = r.alerts,
                                  !.check_now = mono,
                                  !.tracker_pre = exceeded_since,
                                  !.has_critical = FALSE]
    /\ UNCHANGED <<config, programs, procs, notified, btop_opened_at, mono, wall,
                   last_alerted, calls, emitted, last>>

\* A send_alert that catches nothing.
SendAlertReturns_nocatch(outcome) == outcome \in {"ok", "failed"}

\* send_alert(alert) returns: subprocess.run(check=False) returns whatever
\* the exit status, FileNotFoundError and TimeoutExpired are caught.
SendAlertReturns(outcome) == outcome \in {"ok", "failed", "missing", "timeout"}

\* The notification reached the desktop.
Delivered(outcome) == outcome = "ok"

\* What the body of "for alert in alerts" decides: whether the alert is sent,
\* the ledger afterwards and whether has_critical is set.
NotifyResult(send, la, critical) ==
    [send |-> send, last_alerted |-> la, critical |-> critical]

\* A body that records the time of critical alerts only.
NotifyOne_critical(alert, la, now) ==
    LET key == Key(alert.metric, alert.severity)
    IN  IF CooldownOver(la, key, now)
        THEN NotifyResult(TRUE,
                          IF alert.severity = "critical"
                          THEN DictSet(la, key, now) ELSE la,
                          alert.severity = "critical")
        ELSE NotifyResult(FALSE, la, FALSE)

\* A loop body that starts the ledger afresh with every notification.
NotifyOne_prune(alert, la, now) ==
    LET key == Key(alert.metric, alert.severity)
    IN  IF CooldownOver(la, key, now)
        THEN NotifyResult(TRUE, DictSet(EmptyDict, key, now),
                          alert.severity = "critical")
        ELSE NotifyResult(FALSE, la, FALSE)

\* main, lines 630-642: the body of "for alert in alerts", time.time()
\* reading now.
NotifyOne(alert, la, now) ==
    LET key == Key(alert.metric, alert.severity)
    IN  IF CooldownOver(la, key, now)
        THEN NotifyResult(TRUE, DictSet(la, key, now), alert.severity = "critical")
        ELSE NotifyResult(FALSE, la, FALSE)

\* A notification of the history: its ledger key and the clock reading
\* taken for it.
Notification(key, at) == [key |-> key, at |-> at]

\* main, lines 629-642: one pass of "for alert in alerts".
NotifyStep ==
    /\ frame.pc = "notify"
    /\ \E outcome \in Outcomes :
        \E alert \in {Head(frame.alerts)} :
        \E r \in {NotifyOne(alert, last_alerted, wall)} :
            IF r.send /\ ~SendAlertReturns(outcome)
            THEN /\ frame' = [frame EXCEPT !.pc = "crashed"]
                 /\ UNCHANGED <<last_alerted, notified>>
            ELSE /\ last_alerted' = r.last_alerted
                 /\ notified' =
                        IF r.send
                        THEN notified \cup
                             {Notification(Key(alert.metric, alert.severity), wall)}
                        ELSE notified
                 /\ frame' = [frame EXCEPT
                        !.pc = IF Tail(frame.alerts) = <<>> THEN "btop" ELSE "notify",
                        !.alerts = Tail(frame.alerts),
                        !.failed = frame.failed \cup
                                   (IF r.send /\ ~Delivered(outcome)
                                    THEN {"notify-send"} ELSE {}),
                        !.has_critical = frame.has_critical \/ r.critical]
    /\ UNCHANGED <<config, programs, procs, btop_opened_at, mono, wall, exceeded_since,
                   calls, emitted, last>>

\* The seconds between two launches of btop.
BtopInterval == 60

\* An open_btop that starts the window with every attempt past the limit.
OpenBtop_eager(opened_at, now, terminal, outcome) ==
    IF now - opened_at < BtopInterval THEN opened_at ELSE now

\* open_btop() with time.time() reading now: _btop_opened_at afterwards.
\* Without a terminal, or when Popen raises FileNotFoundError, it is kept.
OpenBtop(opened_at, now, terminal, outcome) ==
    IF now - opened_at < BtopInterval THEN opened_at
    ELSE IF ~terminal THEN opened_at
    ELSE IF outcome = "missing" THEN opened_at
    ELSE now

\* A step that opens btop after a critical alert whether or not
\* --btop-on-critical was given.
BtopStep_unasked ==
    /\ frame.pc = "btop"
    /\ \E terminal \in BOOLEAN, outcome \in {"ok", "missing"} :
        IF frame.has_critical
        THEN /\ btop_opened_at' = OpenBtop(btop_opened_at, wall, terminal, outcome)
             /\ frame' = [frame EXCEPT !.pc = "idle"]
        ELSE /\ btop_opened_at' = btop_opened_at
             /\ frame' = [frame EXCEPT !.pc = "idle"]
    /\ UNCHANGED <<config, programs, procs, notified, mono, wall, exceeded_since,
                   last_alerted, calls, emitted, last>>

\* main, lines 644-645: "if has_critical and args.btop_on_critical".
BtopStep ==
    /\ frame.pc = "btop"
    /\ \E terminal \in BOOLEAN, outcome \in {"ok", "missing"} :
        IF frame.has_critical /\ frame.btop_on_critical
        THEN /\ btop_opened_at' = OpenBtop(btop_opened_at, wall, terminal, outcome)
             /\ frame' = [frame EXCEPT !.pc = "idle",
                                       !.failed = frame.failed \cup
                                           (IF ~terminal THEN {"terminal"}
                                            ELSE IF outcome # "ok" THEN {"btop"}
                                            ELSE {})]
        ELSE /\ btop_opened_at' = btop_opened_at
             /\ frame' = [frame EXCEPT !.pc = "idle"]
    /\ UNCHANGED <<config, programs, procs, notified, mono, wall, exceeded_since,
                   last_alerted, calls, emitted, last>>

\* main, line 648: service_alerts = check_idle_services(last_alerted,
\* watched, containers).
IdleStep ==
    /\ frame.pc = "idle"
    /\ \E r \in {CheckIdleServices(last_alerted, frame.watched, frame.containers,
                                  wall)} :
        /\ last_alerted' = r.last_alerted
        /\ emitted' = Emit(emitted, r.results, wall)
        /\ frame' = [frame EXCEPT !.pc = IF r.results = <<>> THEN "sleep" ELSE "remind",
                                  !.service_alerts = r.results,
                                  !.idle_now = wall,
                                  !.idle_pre = last_alerted]
    /\ UNCHANGED <<config, programs, procs, notified, btop_opened_at, mono, wall,
                   exceeded_since, calls, last>>

\* send_service_alert(alert) returns: FileNotFoundError and TimeoutExpired of
\* notify-send are caught, a missing terminal is reported, FileNotFoundError
\* of Popen is caught.
SendServiceAlertReturns(outcome, terminal, launch) ==
    /\ outcome \in {"ok", "failed", "missing", "timeout"}
    /\ (terminal => launch \in {"ok", "missing"})

\* main, lines 649-651: one pass of "for sa in service_alerts". The reminder
\* carries the clock reading check_idle_services took.
RemindStep ==
    /\ frame.pc = "remind"
    /\ \E outcome \in Outcomes, terminal \in BOOLEAN, launch \in {"ok", "missing"} :
        IF ~SendServiceAlertReturns(outcome, terminal, launch)
        THEN /\ frame' = [frame EXCEPT !.pc = "crashed"]
             /\ UNCHANGED notified
        ELSE /\ notified' = notified \cup
                    {Notification(AlertKey(Head(frame.service_alerts)),
                                  frame.idle_now)}
             /\ frame' = [frame EXCEPT
                    !.pc = IF Tail(frame.service_alerts) = <<>>
                           THEN "sleep" ELSE "remind",
                    !.failed = frame.failed \cup
                               (IF Delivered(outcome) THEN {} ELSE {"notify-send"})
                               \cup (IF ~terminal THEN {"terminal"}
                                     ELSE IF launch # "ok" THEN {"inspector"}
                                     ELSE {}),
                    !.service_alerts = Tail(frame.service_alerts)]
    /\ UNCHANGED <<config, programs, procs, btop_opened_at, mono, wall, exceeded_since,
                   last_alerted, calls, emitted, last>>

\* args.interval: the seconds between two ticks.
Interval == 1

\* main, line 653: time.sleep(args.interval), and back to the top of the
\* loop.
SleepStep ==
    /\ frame.pc = "sleep"
    /\ wall + Interval <= WallStart + MaxWall
    /\ mono + Interval <= MaxMono
    /\ wall' = wall + Interval
    /\ mono' = mono + Interval
    /\ frame' = IdleFrame(frame.btop_on_critical)
    /\ UNCHANGED <<config, programs, procs, notified, btop_opened_at, exceeded_since,
                   last_alerted, calls, emitted, last>>

\* The positions of main() inside "while True".
LoopPositions == {"collect", "check", "notify", "btop", "idle", "remind", "sleep"}

\* An interrupt that main() does not see.
Interrupt_ignored ==
    /\ frame.pc \in LoopPositions
    /\ frame.at = "none"
    /\ frame' = [frame EXCEPT !.at = frame.pc]
    /\ UNCHANGED <<config, programs, procs, notified, btop_opened_at, mono, wall,
                   exceeded_since, last_alerted, calls, emitted, last>>

\* main, lines 615 and 655-656: KeyboardInterrupt is raised where main() is
\* and caught outside "while True"; at is the position it was raised at.
Interrupt ==
    /\ frame.pc \in LoopPositions
    /\ frame' = [frame EXCEPT !.pc = "stopped", !.at = frame.pc]
    /\ UNCHANGED <<config, programs, procs, notified, btop_opened_at, mono, wall,
                   exceeded_since, last_alerted, calls, emitted, last>>

\* The runs of main(): the process table and --btop-on-critical. No watched
\* process, the Zoom client started a minute ago, and the client with a
\* creation time that is None.
RunChoices ==
    {[table |-> <<>>, btop_on_critical |-> TRUE],
     [table |-> <<ProcInfo("Zoom", WallStart - SecondsPerMinute, 1)>>,
      btop_on_critical |-> FALSE],
     [table |-> <<ProcInfo("Zoom", NoneValue, 1)>>, btop_on_critical |-> FALSE]}

InitMain ==
    /\ InitConfigDefault
    /\ mono = 0
    /\ wall = WallStart
    /\ exceeded_since = EmptyDict
    /\ last_alerted = EmptyDict
    /\ calls = <<>>
    /\ emitted = EmptyDict
    /\ last = [op |-> "init"]
    /\ \E run \in RunChoices :
        procs = run.table /\ frame = IdleFrame(run.btop_on_critical)
    /\ notified = {}
    /\ btop_opened_at = 0
    /\ InitPrograms

NextMain ==
    \/ TimePasses
    \/ Collect
    \/ CheckStep
    \/ NotifyStep
    \/ BtopStep
    \/ IdleStep
    \/ RemindStep
    \/ SleepStep
    \/ Interrupt

SpecMain == InitMain /\ [][NextMain]_vars

-----------------------------------------------------------------------------
(* Claims about main *)

\* The clock readings of the notifications sent for key.
NotifiedAt(key) == {n.at : n \in {x \in notified : x.key = key}}

NotifiedKeys == {n.key : n \in notified}

Latest(T) == CHOOSE t \in T : \A u \in T : u <= t

\* The reminders check_idle_services has decided on and main() has yet to send.
PendingReminders ==
    {AlertKey(frame.service_alerts[k]) : k \in 1..Len(frame.service_alerts)}

\* C14: over a run of the loop, two notifications for the same key are at
\* least alert_cooldown seconds apart, and the ledger holds, for every key
\* notified, the time of its latest notification (the time of the reminder
\* that is about to be sent, once check_idle_services has decided on it).
C14_LoopCooldown ==
    /\ \A n1, n2 \in notified :
        (n1.key = n2.key /\ n1.at < n2.at) => n2.at - n1.at >= alert_cooldown
    /\ \A key \in NotifiedKeys :
        /\ key \in DOMAIN last_alerted
        /\ \/ last_alerted[key] = Latest(NotifiedAt(key))
           \/ /\ key \in PendingReminders
              /\ last_alerted[key] = frame.idle_now
              /\ last_alerted[key] > Latest(NotifiedAt(key))

\* A threshold alert and a reminder each notified twice, the cooldown apart,
\* after a tick in between that notified neither.
C14_Witness ==
    /\ alert_cooldown > 0
    /\ \E k1, k2 \in NotifiedKeys :
        /\ k1 = Key("ram_percent", "warning")
        /\ k2 = Key("proc", "zoom")
        /\ \A k \in {k1, k2} :
            /\ Cardinality(NotifiedAt(k)) = 2
            /\ \E t \in NotifiedAt(k) : t + alert_cooldown \in NotifiedAt(k)
            /\ last_alerted[k] = Latest(NotifiedAt(k))

\* What a tick works on: the tracker, the ledger, the notifications sent and
\* the time btop was opened.
worked == <<exceeded_since, last_alerted, notified, btop_opened_at>>

\* C15 as stated: when the loop has stopped on an interrupt, the tick that
\* was in progress had run to its end: the interrupt arrived during the
\* sleep, or before the tick began.
C15_Original ==
    frame.pc = "stopped" => frame.at \in {"sleep", "collect"}

\* C15, amended: an interrupt stops the loop where it is. An interrupt that
\* has arrived has stopped the loop; it changes nothing of what the tick
\* works on, the steps of the tick that have not run are not run, and
\* nothing runs after it.
C15_InterruptStops ==
    /\ [](frame.at # "none" => frame.pc = "stopped")
    /\ [][/\ (frame.pc # "stopped" /\ frame'.pc = "stopped") =>
                /\ frame' = [frame EXCEPT !.pc = "stopped", !.at = frame.pc]
                /\ UNCHANGED worked
          /\ frame.pc = "stopped" => UNCHANGED <<frame, worked>>]_vars

\* The loop stopped in the middle of a tick: an alert of check_thresholds was
\* never passed to send_alert, and check_idle_services never saw the idle
\* container of this tick.
C15_Witness ==
    /\ frame.pc = "stopped"
    /\ frame.at = "notify"
    /\ frame.alerts # <<>>
    /\ \A k \in 1..Len(frame.alerts) :
           Key(frame.alerts[k].metric, frame.alerts[k].severity)
               \notin DOMAIN last_alerted
    /\ frame.containers # <<>>
    /\ Key("docker", "db") \notin DOMAIN last_alerted

\* The positions of a tick after check_thresholds, after the alert loop and
\* after check_idle_services.
AfterCheck == frame.pc \in {"notify", "btop", "idle", "remind", "sleep"}

AfterAlerts == frame.pc \in {"btop", "idle", "remind", "sleep"}

AfterIdle == frame.pc \in {"remind", "sleep"}

\* No failure of an external command ends the loop: the only exception that
\* leaves main() is the one scan_watched_processes raises.
NotAborted ==
    frame.pc = "crashed" => ScanWatchedProcesses(procs, wall).raised

\* The tracker after check_thresholds is what the call made of the tracker
\* before it: no later step of the tick writes to it.
TrackerAsChecked ==
    AfterCheck =>
        exceeded_since =
            CheckThresholds(Items(frame.metrics), frame.tracker_pre,
                            frame.check_now).exceeded_since

\* After the alert loop every alert of the tick has been sent and recorded,
\* or was within its cooldown, whatever became of notify-send.
AlertsHandled ==
    AfterAlerts =>
        \A k \in 1..Len(frame.tick_alerts) :
            LET key == Key(frame.tick_alerts[k].metric, frame.tick_alerts[k].severity)
            IN  /\ key \in DOMAIN last_alerted
                /\ last_alerted[key] > frame.started - alert_cooldown
                /\ last_alerted[key] >= frame.started =>
                       Notification(key, last_alerted[key]) \in notified

\* After check_idle_services the ledger is what the call makes of the ledger
\* before it for the containers given, and at the sleep every reminder the
\* call decided on has been passed to send_service_alert.
LedgerAsWith(containers) ==
    LET r == CheckIdleServices(frame.idle_pre, frame.watched, containers,
                               frame.idle_now)
    IN  /\ AfterIdle => last_alerted = r.last_alerted
        /\ frame.pc = "sleep" =>
               \A k \in 1..Len(r.results) :
                   Notification(AlertKey(r.results[k]), frame.idle_now) \in notified

\* C16 as stated: a failing external command does not abort the tick, and
\* the tracker and the ledger after the tick are those of a tick in which
\* every command succeeded: "docker ps" listing the running containers.
C16_Original ==
    /\ NotAborted
    /\ TrackerAsChecked
    /\ AlertsHandled
    /\ LedgerAsWith(frame.running)

\* C16, amended: the same, a "docker ps" that does not run being taken as
\* one that lists no container: the tick then gives no container reminder
\* and writes no docker:<name> entry.
C16_CollaboratorFailure ==
    /\ NotAborted
    /\ TrackerAsChecked
    /\ AlertsHandled
    /\ LedgerAsWith(IF frame.docker_ok THEN frame.running ELSE <<>>)
    /\ (AfterIdle /\ ~frame.docker_ok) =>
           \A k \in 1..Len(frame.running) :
               LET key == Key("docker", frame.running[k].name)
               IN  /\ Notification(key, frame.idle_now) \notin notified
                   /\ DictGet(last_alerted, key, 0) = DictGet(frame.idle_pre, key, 0)

\* A tick that reached its sleep although docker, notify-send and the
\* terminal failed: its threshold alert and its reminder were recorded at
\* the time of the tick.
C16_Witness ==
    /\ frame.pc = "sleep"
    /\ {"docker", "notify-send", "terminal"} \subseteq frame.failed
    /\ frame.running # <<>>
    /\ frame.tick_alerts # <<>>
    /\ \E k \in 1..Len(frame.tick_alerts) :
           last_alerted[Key(frame.tick_alerts[k].metric,
                            frame.tick_alerts[k].severity)] >= frame.started
    /\ Key("proc", "zoom") \in DOMAIN last_alerted
    /\ last_alerted[Key("proc", "zoom")] = frame.idle_now

-----------------------------------------------------------------------------
(* config.py: _deep_merge and load_config *)

\* The values of a configuration dict: an integer, or a dict (a TOML table).
Scalar(n) == [type |-> "int", int |-> n]

Table(d) == [type |-> "dict", dict |-> d]

\* "isinstance(v, dict)"
IsDict(v) == v.type = "dict"

\* DEFAULT_CONFIG, in the model's units.
DefaultConfig ==
    [key \in {"alert_cooldown", "docker_idle_minutes", "thresholds", "sustained",
              "watchlist"} |->
        CASE key = "alert_cooldown" -> Scalar(DefaultCooldown)
          [] key = "docker_idle_minutes" -> Scalar(DefaultDockerIdle)
          [] key = "thresholds" -> Table(DefaultThresholds)
          [] key = "sustained" -> Table(DefaultSustained)
          [] key = "watchlist" -> Table(DefaultWatchlist)]

\* "{**a, **b}"
DictUpdate(a, b) ==
    [x \in (DOMAIN a) \cup (DOMAIN b) |-> IF x \in DOMAIN b THEN b[x] ELSE a[x]]

\* What a merge leaves: the merged dict, and the dict that was passed as base
\* as it is afterwards.
MergeResult(merged, base) == [merged |-> merged, base |-> base]

\* A merge that replaces a table of base by the table of overlay.
DeepMerge_replace(base, overlay) ==
    MergeResult(DictUpdate(base, overlay), base)

\* _deep_merge(base, overlay): merged starts as a copy of base; each key of
\* overlay is looked at once, so the order of overlay.items() does not show.
DeepMerge(base, overlay) ==
    MergeResult(
        [key \in (DOMAIN base) \cup (DOMAIN overlay) |->
            IF key \notin DOMAIN overlay THEN base[key]
            ELSE IF key \in DOMAIN base /\ IsDict(base[key]) /\ IsDict(overlay[key])
                 THEN Table(DictUpdate(base[key].dict, overlay[key].dict))
                 ELSE overlay[key]],
        base)

\* A file of the file system: not there, not TOML, or TOML that parses to
\* the dict config.
File(kind, cfg) == [kind |-> kind, config |-> cfg]

NoFile == File("absent", EmptyDict)

\* What load_config gives: SystemExit, or the configuration returned, with
\* the warning printed and DEFAULT_CONFIG as it is afterwards.
LoadResult(exit, cfg, warned, defaults) ==
    [exit |-> exit, config |-> cfg, warned |-> warned, defaults |-> defaults]

\* A load_config that falls back to the defaults for any bad file.
LoadConfig_lenient(explicit, file, default_file) ==
    LET used == IF explicit THEN file ELSE default_file
    IN  IF used.kind = "valid"
        THEN LET m == DeepMerge(DefaultConfig, used.config)
             IN  LoadResult(FALSE, m.merged, FALSE, m.base)
        ELSE LoadResult(FALSE, DefaultConfig, used.kind = "invalid", DefaultConfig)

\* load_config(path): explicit says that path is not None, file is the file
\* at path and default_file the file at _DEFAULT_PATH.
LoadConfig(explicit, file, default_file) ==
    IF explicit
    THEN IF file.kind = "absent"
         THEN LoadResult(TRUE, EmptyDict, FALSE, DefaultConfig)
         ELSE IF file.kind = "invalid"
         THEN LoadResult(TRUE, EmptyDict, FALSE, DefaultConfig)
         ELSE LET m == DeepMerge(DefaultConfig, file.config)
              IN  LoadResult(FALSE, m.merged, FALSE, m.base)
    ELSE IF default_file.kind # "absent"
         THEN IF default_file.kind = "valid"
              THEN LET m == DeepMerge(DefaultConfig, default_file.config)
                   IN  LoadResult(FALSE, m.merged, FALSE, m.base)
              ELSE LoadResult(FALSE, DefaultConfig, TRUE, DefaultConfig)
         ELSE LoadResult(FALSE, DefaultConfig, FALSE, DefaultConfig)

\* A key the user's file leaves out.
Unset == [type |-> "unset"]

\* The dict tomllib.loads gives for a file with these settings.
UserConfig(cooldown, thresh, watch, custom) ==
    LET given == [alert_cooldown |-> cooldown, thresholds |-> thresh,
                  watchlist |-> watch, custom |-> custom]
    IN  [key \in {k \in DOMAIN given : given[k].type # "unset"} |-> given[key]]

\* [thresholds] of a user's file: a full entry for cpu_percent, a partial
\* one, an entry for a metric the defaults do not have, or a number.
UserThresholds ==
    {Unset,
     Table([m \in {"cpu_percent"} |-> [warning |-> 1, critical |-> 4]]),
     Table([m \in {"cpu_percent"} |-> [warning |-> 1]]),
     Table([m \in {"disk_percent"} |-> [warning |-> 1, critical |-> 4]]),
     Scalar(4)}

\* [watchlist] of a user's file: a new application, or zoom without
\* active_cpu.
UserWatchlists ==
    {Unset,
     Table([k \in {"spotify"} |-> [label |-> "Spotify", idle_minutes |-> 1]]),
     Table([k \in {"zoom"} |-> [label |-> "Zoom Meetings", idle_minutes |-> 2]])}

UserConfigs ==
    {UserConfig(c, t, w, x) :
        c \in {Unset, Scalar(DefaultCooldown + 1)}, t \in UserThresholds,
        w \in UserWatchlists, x \in {Unset, Scalar(1)}}

\* The file load_config reads.
FileChoices ==
    {NoFile, File("invalid", EmptyDict)} \cup {File("valid", u) : u \in UserConfigs}

\* The file at the other path.
OtherFileChoices ==
    {NoFile, File("invalid", EmptyDict),
     File("valid", UserConfig(Scalar(DefaultCooldown + 1), Unset, Unset, Unset))}

(* config.py: dump_default_config *)

\* The lines of a TOML text: "key = value", "[table.entry]", and the lines
\* a parser passes over.
PairLine(key, literal) == [line |-> "pair", key |-> key, literal |-> literal]

HeaderLine(table, entry) == [line |-> "header", table |-> table, entry |-> entry]

CommentLine == [line |-> "comment"]

BlankLine == [line |-> "blank"]

\* f"{v}" of a number, and f'"{v}"' of a string.
Unquoted(v) == [quoted |-> FALSE, text |-> v]

Quoted(v) == [quoted |-> TRUE, text |-> v]

\* The order of DEFAULT_CONFIG["sustained"].items().
SustainedOrder == <<"cpu_percent">>

RECURSIVE SectionLines(_, _, _, _, _)
\* One "for ... in DEFAULT_CONFIG[table].items()" loop of
\* dump_default_config, from the i-th entry on: the header, the lines of the
\* fields it writes, an empty line.
SectionLines(table, order, entries, fields, i) ==
    IF i > Len(order) THEN <<>>
    ELSE LET entry == entries[order[i]]
         IN  <<HeaderLine(table, order[i])>>
             \o [j \in 1..Len(fields) |->
                    PairLine(fields[j],
                             IF fields[j] = "label" THEN Quoted(entry[fields[j]])
                             ELSE Unquoted(entry[fields[j]]))]
             \o <<BlankLine>>
             \o SectionLines(table, order, entries, fields, i + 1)

\* dump_default_config(): the text, as its lines.
DumpDefaultConfig ==
    <<CommentLine, CommentLine, BlankLine,
      PairLine("alert_cooldown", Unquoted(DefaultConfig["alert_cooldown"].int)),
      PairLine("docker_idle_minutes", Unquoted(DefaultConfig["docker_idle_minutes"].int)),
      BlankLine>>
    \o SectionLines("thresholds", MetricOrder, DefaultConfig["thresholds"].dict,
                    <<"warning", "critical">>, 1)
    \o SectionLines("sustained", SustainedOrder, DefaultConfig["sustained"].dict,
                    <<"warning", "critical">>, 1)
    \o SectionLines("watchlist", WatchOrder, DefaultConfig["watchlist"].dict,
                    <<"label", "idle_minutes">>, 1)

\* Where a TOML parser is: the document so far and the table that the last
\* header opened ("" before the first header).
ParseState(doc, table, entry) == [doc |-> doc, table |-> table, entry |-> entry]

\* One line read by tomllib.loads.
ParseLine(line, st) ==
    IF line.line = "header"
    THEN LET tbl == IF line.table \in DOMAIN st.doc
                    THEN st.doc[line.table].dict ELSE EmptyDict
         IN  ParseState(DictSet(st.doc, line.table,
                                Table(DictSetDefault(tbl, line.entry, EmptyDict))),
                        line.table, line.entry)
    ELSE IF line.line = "pair"
    THEN IF st.table = ""
         THEN ParseState(DictSet(st.doc, line.key, Scalar(line.literal.text)),
                         st.table, st.entry)
         ELSE LET tbl == st.doc[st.table].dict
                  entry == DictSet(tbl[st.entry], line.key, line.literal.text)
              IN  ParseState(DictSet(st.doc, st.table,
                                     Table(DictSet(tbl, st.entry, entry))),
                             st.table, st.entry)
    ELSE st

RECURSIVE ParseLines(_, _, _)
ParseLines(lines, i, st) ==
    IF i > Len(lines) THEN st ELSE ParseLines(lines, i + 1, ParseLine(lines[i], st))

\* tomllib.loads(text)
TomlLoads(lines) == ParseLines(lines, 1, ParseState(EmptyDict, "", "")).doc

\* dump_default_config() called, and its output parsed as the test does.
DumpCall ==
    /\ \E text \in {DumpDefaultConfig} :
        last' = [op |-> "dump_default_config", text |-> text,
                 parsed |-> TomlLoads(text)]
    /\ UNCHANGED <<config, programs, loop, mono, wall, exceeded_since, last_alerted, calls,
                   emitted>>

LoadConfigCall ==
    /\ \E explicit \in BOOLEAN, used \in FileChoices, other \in OtherFileChoices :
        LET file == IF explicit THEN used ELSE other
            default_file == IF explicit THEN other ELSE used
        IN  \E r \in {LoadConfig(explicit, file, default_file)} :
                last' = [op |-> "load_config", explicit |-> explicit, file |-> file,
                         default_file |-> default_file, result |-> r]
    /\ UNCHANGED <<config, programs, loop, mono, wall, exceeded_since, last_alerted, calls,
                   emitted>>

NextConfig == LoadConfigCall \/ DumpCall

SpecConfig == InitTracker /\ [][NextConfig]_vars

(* Claims about load_config *)

IsLoad == last.op = "load_config"

\* The file load_config read.
FileRead == IF last.explicit THEN last.file ELSE last.default_file

\* load_config merged a user's file.
Merged == IsLoad /\ FileRead.kind = "valid" /\ ~last.result.exit

\* C17: when load_config merges a user's file, a scalar of the file stands
\* in the result, a key the file alone has is added, a default the file does
\* not name is kept, and in thresholds, sustained and watchlist each entry
\* the file names is the file's and each other default entry is kept;
\* DEFAULT_CONFIG is afterwards what it was.
C17_MergeOverDefaults ==
    Merged =>
        LET user == FileRead.config
            cfg == last.result.config
        IN  /\ DOMAIN cfg = (DOMAIN DefaultConfig) \cup (DOMAIN user)
            /\ \A key \in DOMAIN user :
                ~IsDict(user[key]) => cfg[key] = user[key]
            /\ \A key \in (DOMAIN user) \ (DOMAIN DefaultConfig) :
                cfg[key] = user[key]
            /\ \A key \in (DOMAIN DefaultConfig) \ (DOMAIN user) :
                cfg[key] = DefaultConfig[key]
            /\ \A key \in {"thresholds", "sustained", "watchlist"} :
                (key \in DOMAIN user /\ IsDict(user[key])) =>
                    LET mine == user[key].dict
                        theirs == DefaultConfig[key].dict
                    IN  /\ IsDict(cfg[key])
                        /\ DOMAIN cfg[key].dict = (DOMAIN mine) \cup (DOMAIN theirs)
                        /\ \A e \in DOMAIN mine : cfg[key].dict[e] = mine[e]
                        /\ \A e \in (DOMAIN theirs) \ (DOMAIN mine) :
                            cfg[key].dict[e] = theirs[e]
            /\ last.result.defaults = DefaultConfig

\* A file with a new cooldown, a partial cpu_percent entry and a key of its
\* own was merged: ram_percent is still in the result.
C17_Witness ==
    /\ Merged
    /\ {"alert_cooldown", "thresholds", "custom"} \subseteq DOMAIN FileRead.config
    /\ IsDict(FileRead.config["thresholds"])
    /\ DOMAIN FileRead.config["thresholds"].dict = {"cpu_percent"}
    /\ "critical" \notin DOMAIN FileRead.config["thresholds"].dict["cpu_percent"]
    /\ "ram_percent" \in DOMAIN last.result.config["thresholds"].dict
    /\ last.result.config["alert_cooldown"].int = DefaultCooldown + 1

IsDump == last.op = "dump_default_config"

\* C19: the output of dump_default_config, parsed as TOML, is DEFAULT_CONFIG:
\* every top-level setting and every field of every thresholds, sustained and
\* watchlist entry has its default value.
C19_DumpRoundTrip == IsDump => last.parsed = DefaultConfig

\* What the round trip does keep: the settings, the thresholds, the sustained
\* durations, and label and idle_minutes of every watchlist entry.
DumpKeeps ==
    IsDump =>
        /\ DOMAIN last.parsed = DOMAIN DefaultConfig
        /\ \A key \in {"alert_cooldown", "docker_idle_minutes", "thresholds",
                       "sustained"} : last.parsed[key] = DefaultConfig[key]
        /\ DOMAIN last.parsed["watchlist"].dict = DOMAIN DefaultWatchlist
        /\ \A k \in DOMAIN DefaultWatchlist :
            /\ DOMAIN last.parsed["watchlist"].dict[k] = {"label", "idle_minutes"}
            /\ \A f \in {"label", "idle_minutes"} :
                last.parsed["watchlist"].dict[k][f] = DefaultWatchlist[k][f]

-----------------------------------------------------------------------------
(* dashboard.py: the severity colours of the panels *)

\* Curses colour-pair IDs
C_NORMAL == 1
C_WARNING == 2
C_CRITICAL == 3

\* A colour that turns critical only above the threshold.
SeverityColor_strict(value, warn, crit) ==
    IF value > crit THEN C_CRITICAL
    ELSE IF value >= warn THEN C_WARNING
    ELSE C_NORMAL

\* _severity_color(value, warn, crit)
SeverityColor(value, warn, crit) ==
    IF value >= crit THEN C_CRITICAL
    ELSE IF value >= warn THEN C_WARNING
    ELSE C_NORMAL

\* A reading the panel shows as "n/a", without a colour.
NoColor == 0

\* The colour a panel gives a reading: "thresh.get(metric, {}).get(level,
\* <number>)", where the numbers written in the panels are those of
\* DEFAULT_CONFIG.
PanelColor(metric, value, thresh) ==
    LET entry == DictGet(thresh, metric, EmptyDict)
        warn == DictGet(entry, "warning", DefaultThresholds[metric].warning)
        crit == DictGet(entry, "critical", DefaultThresholds[metric].critical)
    IN  IF value = NoneValue THEN NoColor ELSE SeverityColor(value, warn, crit)

\* One tick in which the monitor and the dashboard, started with the same
\* configuration, read the same snapshot: check_thresholds runs in the
\* monitor, the panels are drawn in the dashboard.
DashboardTick ==
    \E snapshot \in [Metrics -> (1..MaxValue) \cup {NoneValue}] :
        \E r \in {CheckThresholds(Items(snapshot), exceeded_since, mono)} :
            /\ exceeded_since' = r.exceeded_since
            /\ last' = [op |-> "tick", metrics |-> snapshot,
                        pre |-> exceeded_since, now |-> mono,
                        alerts |-> r.alerts, tcalls |-> r.tcalls,
                        colors |-> [m \in Metrics |->
                                       PanelColor(m, snapshot[m], thresholds)]]
            /\ UNCHANGED <<config, programs, loop, mono, wall, last_alerted, calls, emitted>>

NextDashboard == MonoTick \/ DashboardTick

SpecDashboard == InitThresh /\ [][NextDashboard]_vars

(* Claims about the dashboard *)

IsTick == last.op = "tick"

\* The severity a colour stands for.
ColorSeverity(color) ==
    CASE color = C_CRITICAL -> "critical"
      [] color = C_WARNING -> "warning"
      [] OTHER -> "none"

\* The severity check_thresholds gave a metric in the tick: that of its
\* alert, "none" without one.
MonitorSeverity(m) ==
    IF \E i \in 1..Len(last.alerts) : last.alerts[i].metric = m
    THEN last.alerts[CHOOSE i \in 1..Len(last.alerts) :
                        last.alerts[i].metric = m].severity
    ELSE "none"

Rank(severity) ==
    CASE severity = "critical" -> 2
      [] severity = "warning" -> 1
      [] OTHER -> 0

\* The metrics of the tick that have a reading and configured thresholds.
Shown == {m \in Metrics : last.metrics[m] # NoneValue /\ m \in DOMAIN thresholds}

\* C20 as stated: in every tick the colour of every reading is the severity
\* check_thresholds gives that reading.
C20_Original ==
    IsTick =>
        \A m \in Shown : ColorSeverity(last.colors[m]) = MonitorSeverity(m)

\* C20: the colour of a reading follows the thresholds alone (critical from
\* critical on, warning from warning on); for a metric without a sustained
\* duration it is the severity check_thresholds gives the reading, and for a
\* sustained metric check_thresholds never gives a higher severity than the
\* colour shows.
C20_DashboardSeverity ==
    IsTick =>
        \A m \in Shown :
            LET value == last.metrics[m]
                color == ColorSeverity(last.colors[m])
            IN  /\ color = (IF value >= thresholds[m].critical THEN "critical"
                            ELSE IF value >= thresholds[m].warning THEN "warning"
                            ELSE "none")
                /\ m \notin DOMAIN sustained => color = MonitorSeverity(m)
                /\ Rank(MonitorSeverity(m)) <= Rank(color)

\* A tick in which cpu_percent is shown critical while check_thresholds,
\* still waiting for the duration, gives it no alert, and ram_percent at its
\* warning threshold is a warning in both.
C20_Witness ==
    /\ IsTick
    /\ {"cpu_percent", "ram_percent"} \subseteq Shown
    /\ last.colors["cpu_percent"] = C_CRITICAL
    /\ MonitorSeverity("cpu_percent") = "none"
    /\ last.metrics["ram_percent"] = thresholds["ram_percent"].warning
    /\ last.colors["ram_percent"] = C_WARNING
    /\ MonitorSeverity("ram_percent") = "warning"

-----------------------------------------------------------------------------
(* open_btop and its rate limit *)

MaxBtopWall == 121
MaxBtopCalls == 3

\* Popen of the terminal with btop returned: open_btop got past the rate
\* limit, found a terminal, and Popen did not raise FileNotFoundError.
BtopLaunched(opened_at, now, terminal, outcome) ==
    /\ ~(now - opened_at < BtopInterval)
    /\ terminal
    /\ outcome # "missing"

\* The record of one call of open_btop.
BtopCall(now, terminal, outcome, launched, pre, post) ==
    [now |-> now, terminal |-> terminal, outcome |-> outcome,
     launched |-> launched, pre |-> pre, post |-> post]

\* time.time() between two calls of open_btop: just under the interval, or
\* the interval.
BtopWait ==
    /\ \E d \in {BtopInterval - 1, BtopInterval} :
        /\ wall + d <= WallStart + MaxBtopWall
        /\ wall' = wall + d
    /\ UNCHANGED <<config, programs, loop, mono, exceeded_since, last_alerted, calls, emitted,
                   last>>

\* One call of open_btop.
OpenBtopCall ==
    /\ Len(calls) < MaxBtopCalls
    /\ \E terminal \in BOOLEAN, outcome \in {"ok", "missing"} :
        \E post \in {OpenBtop(btop_opened_at, wall, terminal, outcome)} :
            /\ btop_opened_at' = post
            /\ calls' = Append(calls,
                   BtopCall(wall, terminal, outcome,
                            BtopLaunched(btop_opened_at, wall, terminal, outcome),
                            btop_opened_at, post))
            /\ last' = [op |-> "open_btop", now |-> wall]
    /\ UNCHANGED <<config, programs, procs, frame, notified, mono, wall, exceeded_since,
                   last_alerted, emitted>>

NextBtop == BtopWait \/ OpenBtopCall

SpecBtop == InitTracker /\ [][NextBtop]_vars

(* Claims about open_btop *)

\* The calls before the j-th that launched btop less than 60 seconds
\* before it.
RecentLaunches(j) ==
    {i \in 1..(j - 1) :
        calls[i].launched /\ calls[j].now - calls[i].now < BtopInterval}

-----------------------------------------------------------------------------
(* Claims about the tracker under check_thresholds *)

\* The sustained metrics that have thresholds.
SustainedMetrics == (DOMAIN sustained) \cap (DOMAIN thresholds)

\* The condition of metric:severity in the most recent snapshot.
ConditionNow(m, severity) ==
    /\ last.metrics[m] # NoneValue
    /\ last.metrics[m] >= thresholds[m][severity]

\* C22: after every check_thresholds tick the tracker has an entry for
\* metric:severity of a sustained metric exactly when the value in that
\* tick's snapshot is at or above that severity's limit.
C22_EntryIffCondition ==
    last.op = "check_thresholds" =>
        \A m \in SustainedMetrics : \A i \in 1..Len(Severities) :
            Key(m, Severities[i]) \in DOMAIN exceeded_since
                <=> ConditionNow(m, Severities[i])

-----------------------------------------------------------------------------
(* The evaluators under a loaded configuration *)

\* _apply_config(cfg): the module globals afterwards.
ApplyConfig(cfg) ==
    [thresholds |-> cfg["thresholds"].dict,
     sustained |-> cfg["sustained"].dict,
     alert_cooldown |-> cfg["alert_cooldown"].int,
     watchlist |-> cfg["watchlist"].dict,
     docker_idle_minutes |-> cfg["docker_idle_minutes"].int]

\* User files load_config accepts: an empty one, one that overrides only the
\* warning level of cpu_percent, one that overrides both levels, and one
\* that overrides only idle_minutes of zoom.
EvalFiles ==
    {UserConfig(Unset, Unset, Unset, Unset),
     UserConfig(Unset, Table([m \in {"cpu_percent"} |-> [warning |-> 1]]), Unset, Unset),
     UserConfig(Unset, Table([m \in {"cpu_percent"} |-> [warning |-> 1, critical |-> 4]]),
                Unset, Unset),
     UserConfig(Unset, Unset, Table([k \in {"zoom"} |-> [idle_minutes |-> 2]]), Unset)}

\* The first item of the snapshot at which check_thresholds raises KeyError,
\* 0 when there is none: the value is there, the metric has a non-empty
\* thresholds entry, and 'limit = thresh[severity]' finds no "critical" in it.
\* (Entries that have "critical" have "warning" too in the files above.)
FirstKeyError(items) ==
    LET bad == {j \in 1..Len(items) :
                  /\ items[j].value # NoneValue
                  /\ items[j].metric \in DOMAIN thresholds
                  /\ thresholds[items[j].metric] # EmptyDict
                  /\ Severities[1] \notin DOMAIN thresholds[items[j].metric]}
    IN  IF bad = {} THEN 0 ELSE CHOOSE j \in bad : \A k \in bad : j <= k

\* One call of check_thresholds under the loaded configuration: it returns,
\* or raises at the first item whose entry lacks a level, after the items
\* before it were evaluated.
CheckThresholdsLoaded ==
    \E snapshot \in [Metrics -> (1..MaxValue) \cup {NoneValue}] :
        LET items == Items(snapshot)
            bad == FirstKeyError(items)
            done == IF bad = 0 THEN items ELSE SubSeq(items, 1, bad - 1)
        IN  \E r \in {CheckThresholds(done, exceeded_since, mono)} :
                /\ exceeded_since' = r.exceeded_since
                /\ last' = [op |-> "check_thresholds", metrics |-> snapshot,
                            pre |-> exceeded_since, now |-> mono,
                            alerts |-> IF bad = 0 THEN r.alerts ELSE <<>>,
                            tcalls |-> r.tcalls, raised |-> bad # 0]
                /\ UNCHANGED <<config, programs, loop, mono, wall, last_alerted, calls, emitted>>

\* main, lines 604-613: the configuration is loaded from the file given and
\* applied.
InitEval ==
    /\ \E u \in EvalFiles :
        \E cfg \in {ApplyConfig(LoadConfig(TRUE, File("valid", u), NoFile).config)} :
            /\ thresholds = cfg.thresholds
            /\ sustained = cfg.sustained
            /\ alert_cooldown = cfg.alert_cooldown
            /\ watchlist = cfg.watchlist
            /\ docker_idle_minutes = cfg.docker_idle_minutes
    /\ mono = 0
    /\ wall = WallStart
    /\ exceeded_since = EmptyDict
    /\ last_alerted = EmptyDict
    /\ calls = <<>>
    /\ emitted = EmptyDict
    /\ last = [op |-> "init"]
    /\ InitLoop

NextEval == Spawn \/ ScanCall \/ CheckThresholdsLoaded

SpecEval == InitEval /\ [][NextEval]_vars

(* Claims about the evaluators *)

\* C23: under every configuration load_config returns, check_thresholds and
\* scan_watched_processes return a list: neither raises.
C23_NoErrors ==
    last.op \in {"check_thresholds", "scan"} => ~last.raised

-----------------------------------------------------------------------------
(* Claims about the frame of SustainedTracker.check *)

\* The keys, other than the one checked, that had or have an entry.
OtherKeys == ((DOMAIN last.pre) \cup (DOMAIN exceeded_since)) \ {last.key}

\* C24: a true check on a key that has an entry leaves its start time as it
\* was, and a check on one key leaves the entry of every other key as it
\* was: none added, none removed, none changed.
C24_CheckFrame ==
    last.op = "check" =>
        /\ (last.is_exceeded /\ last.key \in DOMAIN last.pre) =>
            (/\ last.key \in DOMAIN exceeded_since
             /\ exceeded_since[last.key] = last.pre[last.key])
        /\ \A k \in OtherKeys :
            /\ k \in DOMAIN last.pre
            /\ k \in DOMAIN exceeded_since
            /\ exceeded_since[k] = last.pre[k]

\* A true check on a key whose entry is older than the check, made while
\* the other key has an entry too.
C24_Witness ==
    /\ last.op = "check"
    /\ last.is_exceeded
    /\ last.key \in DOMAIN last.pre
    /\ last.pre[last.key] < last.now
    /\ OtherKeys # {}

-----------------------------------------------------------------------------
(* Claims about double counting in scan_watched_processes *)

\* The processes of the scanned table that some watchlist key matches.
AllMatching == {j \in ProcsOfScan : \E key \in DOMAIN watchlist : j \in Matching(key)}

\* cpu_percent summed over the records of the scan from the i-th on.
RECURSIVE FoundCpu(_)
FoundCpu(i) ==
    IF i > Len(last.found) THEN 0 ELSE last.found[i].cpu_percent + FoundCpu(i + 1)

\* C25: in a scan that returns, cpu_percent summed over all records is the
\* CPU of the matching processes with each process taken once, and the
\* record of a key has the CPU of the processes whose first matching key, in
\* watchlist order, it is.
C25_NoDoubleCount ==
    (IsScan /\ ~last.raised) =>
        /\ FoundCpu(1) = CpuSum(AllMatching)
        /\ \A i \in 1..Len(last.found) :
            last.found[i].cpu_percent = CpuSum(Assigned(last.found[i].key))
        /\ \A i, j \in 1..Len(last.found) :
            last.found[i].key = last.found[j].key => i = j

\* A scan of a process whose name holds zoom and code and of a code process:
\* the first is counted for zoom only, the second for code.
C25_Witness ==
    /\ IsScan /\ ~last.raised
    /\ Len(last.table) = 2
    /\ Cardinality(Matching("code")) = 2
    /\ Cardinality(Assigned("code")) = 1
    /\ Cardinality(Assigned("zoom")) = 1
    /\ Len(last.found) = 2
    /\ FoundCpu(1) = 3

-----------------------------------------------------------------------------
(* Claims about the keys of the cooldown ledger *)

\* s begins with prefix.
StartsWith(s, prefix) ==
    Len(s) >= Len(prefix) /\ SubSeq(s, 1, Len(prefix)) = prefix

\* A key of the form <metric>:<severity>.
IsThresholdKey(k) ==
    \E m \in Metrics, i \in 1..Len(Severities) : k = Key(m, Severities[i])

IsDockerKey(k) == StartsWith(k, "docker:")

IsProcKey(k) == \E w \in DOMAIN watchlist : k = Key("proc", w)

\* The keys a step wrote: added to the ledger, or given a new time.
Written ==
    {k \in DOMAIN last_alerted' :
        k \notin DOMAIN last_alerted \/ last_alerted'[k] # last_alerted[k]}

\* One step of the loop as the ledger sees it: no key leaves; the threshold
\* loop writes threshold keys only, check_idle_services docker: and proc:
\* keys only, no other step writes; and no key is of both kinds.
LedgerStep ==
    /\ DOMAIN last_alerted \subseteq DOMAIN last_alerted'
    /\ \A k \in Written :
        /\ frame.pc \in {"notify", "idle"}
        /\ frame.pc = "notify" => IsThresholdKey(k)
        /\ frame.pc = "idle" => (IsDockerKey(k) \/ IsProcKey(k))
    /\ \A k \in DOMAIN last_alerted' :
        ~(IsThresholdKey(k) /\ (IsDockerKey(k) \/ IsProcKey(k)))

\* C26: the ledger only grows, threshold alerts write <metric>:<severity>
\* keys only, the container branch docker:<name> and the process branch
\* proc:<watchlistKey> only, and no key belongs to both paths.
C26_LedgerKeys == [][LedgerStep]_vars

\* The ledger holds a threshold key written after the first tick beside the
\* key of a container.
C26_Witness ==
    /\ "ram_percent:warning" \in DOMAIN last_alerted
    /\ last_alerted["ram_percent:warning"] > WallStart
    /\ \E k \in DOMAIN last_alerted : IsDockerKey(k)

-----------------------------------------------------------------------------
(* dashboard.py: _read_gpu and its availability cache *)

MaxGpuCalls == 3

\* What nvidia-smi can do when it is run: print seven good fields, exit
\* non-zero, print fewer than seven fields, be missing, time out, or print a
\* field that is no number.
GpuOutcomes == {"ok", "nonzero", "short", "missing", "timeout", "unparseable"}

\* What _read_gpu leaves: _gpu_available, whether a reading was returned
\* (None otherwise), and whether nvidia-smi was run.
GpuResult(available, reading, invoked) ==
    [available |-> available, reading |-> reading, invoked |-> invoked]

\* A _read_gpu that forgives a timeout.
ReadGpu_retry(available, outcome) ==
    IF available = "False" THEN GpuResult(available, FALSE, FALSE)
    ELSE IF outcome = "ok" THEN GpuResult("True", TRUE, TRUE)
    ELSE IF outcome = "timeout" THEN GpuResult(available, FALSE, TRUE)
    ELSE GpuResult("False", FALSE, TRUE)

\* _read_gpu() when nvidia-smi, if run, does outcome. An unparseable field
\* raises ValueError after _gpu_available was set to True; the handler sets
\* it to False.
ReadGpu(available, outcome) ==
    IF available = "False" THEN GpuResult(available, FALSE, FALSE)
    ELSE IF outcome = "nonzero" THEN GpuResult("False", FALSE, TRUE)
    ELSE IF outcome = "short" THEN GpuResult("False", FALSE, TRUE)
    ELSE IF outcome = "ok" THEN GpuResult("True", TRUE, TRUE)
    ELSE GpuResult("False", FALSE, TRUE)

\* One call of _read_gpu, as collect_dashboard_data makes it.
ReadGpuCall ==
    /\ Len(calls) < MaxGpuCalls
    /\ \E outcome \in GpuOutcomes :
        \E r \in {ReadGpu(gpu_available, outcome)} :
            /\ gpu_available' = r.available
            /\ calls' = Append(calls, [outcome |-> outcome, pre |-> gpu_available,
                                       post |-> r.available, reading |-> r.reading,
                                       invoked |-> r.invoked])
            /\ last' = [op |-> "_read_gpu", outcome |-> outcome]
    /\ UNCHANGED <<config, loop, prev, inspector, mono, wall, exceeded_since,
                   last_alerted, emitted>>

NextGpu == ReadGpuCall

SpecGpu == InitTracker /\ [][NextGpu]_vars

(* Claims about _read_gpu *)

\* The j-th call ran nvidia-smi and it failed.
GpuFailed(j) == calls[j].invoked /\ calls[j].outcome # "ok"

\* C27: once a call of _read_gpu has failed, _gpu_available is False and
\* stays False, and every later call returns None without running
\* nvidia-smi.
C27_GpuProbeStops ==
    /\ \A j \in 1..Len(calls) :
        /\ GpuFailed(j) => calls[j].post = "False"
        /\ (\E i \in 1..(j - 1) : GpuFailed(i)) =>
            (/\ calls[j].pre = "False"
             /\ calls[j].post = "False"
             /\ ~calls[j].reading
             /\ ~calls[j].invoked)
    /\ (\E i \in 1..Len(calls) : GpuFailed(i)) => gpu_available = "False"

\* A good reading, an unparseable one, and a third call at which nvidia-smi
\* would have answered but is not run.
C27_Witness ==
    /\ Len(calls) = 3
    /\ calls[1].reading
    /\ calls[2].outcome = "unparseable" /\ calls[2].invoked
    /\ calls[3].outcome = "ok" /\ ~calls[3].invoked /\ ~calls[3].reading
    /\ gpu_available = "False"

-----------------------------------------------------------------------------
(* Claims about btop in the monitoring loop *)

\* The critical alerts notified in the tick main() is in: a tick starts
\* later than every notification of the ticks before it.
CriticalNotifiedNow ==
    {n \in notified :
        /\ n.at >= frame.started
        /\ \E m \in Metrics : n.key = Key(m, "critical")}

\* The critical alerts check_thresholds raised in this tick.
CriticalRaised ==
    {k \in 1..Len(frame.tick_alerts) : frame.tick_alerts[k].severity = "critical"}

\* C28: btop is opened only by the step after the alert loop, only when
\* --btop-on-critical was given and a critical alert was notified in this
\* tick; has_critical says exactly that such a notification was made.
C28_BtopOnCritical ==
    /\ [][btop_opened_at' # btop_opened_at =>
            (/\ frame.pc = "btop"
             /\ frame.btop_on_critical
             /\ CriticalNotifiedNow # {}
             /\ btop_opened_at' = wall)]_vars
    /\ [](frame.pc \in {"btop", "idle"} =>
            (frame.has_critical <=> CriticalNotifiedNow # {}))

\* A tick whose critical alert was held back by the cooldown has passed the
\* btop step: btop stays as the tick before opened it.
C28_Witness ==
    /\ frame.pc = "idle"
    /\ frame.btop_on_critical
    /\ CriticalRaised # {}
    /\ ~frame.has_critical
    /\ btop_opened_at > 0
    /\ btop_opened_at < frame.started

-----------------------------------------------------------------------------
(* dashboard.py: the disk and network rates of collect_dashboard_data *)

MaxDashCalls == 3

\* What psutil.disk_io_counters() and psutil.net_io_counters() give: None
\* (NoCounters), or the two byte counters since boot.
NoCounters == [available |-> FALSE]

Counters(a, b) == [available |-> TRUE, first |-> a, second |-> b]

DiskChoices == {Counters(1, 2), Counters(3, 2), Counters(4, 4)}

NetChoices == {Counters(1, 1), Counters(3, 4)}

\* "max(0.0, (counter - previous) / dt)", in whole bytes per second.
Rate(counter, previous, dt) == Max(0, (counter - previous) \div dt)

\* The rates part of collect_dashboard_data (lines 237-260) with
\* time.monotonic() reading now: the four rates, which of them were computed,
\* and the module globals afterwards.
CollectRates(p, now, disk, net) ==
    LET timed == p.has_prev /\ now > p.time
        dt == now - p.time
        has_disk == disk.available
        has_net == net.available
    IN  [disk_read_rate |-> IF has_disk /\ timed
                            THEN Rate(disk.first, p.disk_read, dt) ELSE 0,
         disk_write_rate |-> IF has_disk /\ timed
                             THEN Rate(disk.second, p.disk_write, dt) ELSE 0,
         net_rx_rate |-> IF has_net /\ timed
                         THEN Rate(net.first, p.net_recv, dt) ELSE 0,
         net_tx_rate |-> IF has_net /\ timed
                         THEN Rate(net.second, p.net_sent, dt) ELSE 0,
         disk_computed |-> has_disk /\ timed,
         net_computed |-> has_net /\ timed,
         prev |-> [disk_read |-> IF has_disk THEN disk.first ELSE p.disk_read,
                   disk_write |-> IF has_disk THEN disk.second ELSE p.disk_write,
                   net_recv |-> IF has_net THEN net.first ELSE p.net_recv,
                   net_sent |-> IF has_net THEN net.second ELSE p.net_sent,
                   time |-> now, has_prev |-> TRUE]]

\* One call of collect_dashboard_data: the rates, then the GPU probe.
CollectDashboardData ==
    /\ Len(calls) < MaxDashCalls
    /\ \E disk \in DiskChoices \cup {NoCounters}, net \in NetChoices \cup {NoCounters},
          outcome \in {"ok", "timeout"} :
        \E r \in {CollectRates(prev, mono, disk, net)} :
            /\ prev' = r.prev
            /\ gpu_available' = ReadGpu(gpu_available, outcome).available
            /\ calls' = Append(calls, [now |-> mono, disk |-> disk, net |-> net,
                                       pre |-> prev, data |-> r])
            /\ last' = [op |-> "collect_dashboard_data", now |-> mono]
    /\ UNCHANGED <<config, loop, inspector, wall, mono, exceeded_since,
                   last_alerted, emitted>>

NextRates == MonoTick \/ CollectDashboardData

SpecRates == InitTracker /\ [][NextRates]_vars

(* Claims about the rates *)

\* The deltas behind the disk rates of the j-th call are taken from the
\* counters the call before it read, which is the call whose time is
\* _prev_time.
DiskDeltaFromPreceding(j) ==
    /\ j > 1
    /\ calls[j].pre.time = calls[j - 1].now
    /\ calls[j - 1].disk.available
    /\ calls[j].pre.disk_read = calls[j - 1].disk.first
    /\ calls[j].pre.disk_write = calls[j - 1].disk.second

NetDeltaFromPreceding(j) ==
    /\ j > 1
    /\ calls[j].pre.time = calls[j - 1].now
    /\ calls[j - 1].net.available
    /\ calls[j].pre.net_recv = calls[j - 1].net.first
    /\ calls[j].pre.net_sent = calls[j - 1].net.second

\* C29: the rates of the first call are 0, no rate is negative, and a rate
\* computed on a later call has its byte delta taken from the counter that
\* the immediately preceding call read.
C29_RatesFromPrecedingCall ==
    \A j \in 1..Len(calls) :
        LET d == calls[j].data
        IN  /\ j = 1 => (/\ d.disk_read_rate = 0 /\ d.disk_write_rate = 0
                         /\ d.net_rx_rate = 0 /\ d.net_tx_rate = 0)
            /\ d.disk_read_rate >= 0 /\ d.disk_write_rate >= 0
            /\ d.net_rx_rate >= 0 /\ d.net_tx_rate >= 0
            /\ d.disk_computed => DiskDeltaFromPreceding(j)
            /\ d.net_computed => NetDeltaFromPreceding(j)

-----------------------------------------------------------------------------
(* inspect_service.py: the process inspector and the Docker inspector *)

MaxPids == 2

\* What the user may type at a prompt.
Inputs == {"g", "G", " g", "k", " K ", "d", "", "y", "Y ", "yes", "s", "S", "gk", "x"}

RECURSIVE LStrip(_)
LStrip(s) ==
    IF s # "" /\ SubSeq(s, 1, 1) = " " THEN LStrip(SubSeq(s, 2, Len(s))) ELSE s

RECURSIVE RStrip(_)
RStrip(s) ==
    IF s # "" /\ SubSeq(s, Len(s), Len(s)) = " "
    THEN RStrip(SubSeq(s, 1, Len(s) - 1)) ELSE s

\* "input(...).strip().lower()"
ReadChoice(raw) == Lower(LStrip(RStrip(raw)))

\* proc.terminate() and proc.kill() on one process
Signal(command, pid) == [command |-> command, pid |-> pid]

\* "docker stop <name>" and "docker kill <name>" on the container
DockerCommand(command) == [command |-> command, container |-> "container"]

ProcessCommands_default(choice, matched) ==
    IF choice = "g" THEN {Signal("terminate", p) : p \in matched}
    ELSE {Signal("kill", p) : p \in matched}

\* The branches of inspect_process on the choice: the signals it sends.
ProcessCommands(choice, matched) ==
    IF choice = "g" THEN {Signal("terminate", p) : p \in matched}
    ELSE IF choice = "k" THEN {Signal("kill", p) : p \in matched}
    ELSE {}

\* "if force == 'y'": the signals sent to the processes still alive.
ForceCommands(force, alive) ==
    IF force = "y" THEN {Signal("kill", p) : p \in alive} ELSE {}

\* The branches of inspect_docker on the choice: the command it runs.
DockerCommands(choice) ==
    IF choice = "s" THEN {DockerCommand("docker stop")}
    ELSE IF choice = "k" THEN {DockerCommand("docker kill")}
    ELSE {}

\* inspect_process up to its prompt: _find_processes gives the matching
\* processes; with none it goes straight to _wait_dismiss.
InspectProcess ==
    /\ inspector.pc = "start"
    /\ \E found \in SUBSET (1..MaxPids) :
        inspector' = [inspector EXCEPT !.mode = "process", !.procs = found,
                                       !.pc = IF found = {} THEN "wait" ELSE "choice"]
    /\ last' = [op |-> "inspect_process"]
    /\ UNCHANGED <<config, loop, gpu_available, prev, wall, mono, exceeded_since,
                   last_alerted, calls, emitted>>

\* The answer to "Choice [g/k/d]": the signals of the branch, and after a
\* graceful stop psutil.wait_procs tells which processes are still alive.
ProcessChoice ==
    /\ inspector.pc = "choice"
    /\ inspector.mode = "process"
    /\ \E raw \in Inputs, alive \in SUBSET inspector.procs :
        \E choice \in {ReadChoice(raw)} :
            inspector' = [inspector EXCEPT
                !.input = raw,
                !.choice = choice,
                !.sent = ProcessCommands(choice, inspector.procs),
                !.alive = IF choice = "g" THEN alive ELSE {},
                !.pc = IF choice = "g" /\ alive # {} THEN "force" ELSE "wait"]
    /\ last' = [op |-> "choice"]
    /\ UNCHANGED <<config, loop, gpu_available, prev, wall, mono, exceeded_since,
                   last_alerted, calls, emitted>>

\* The answer to "Force kill remaining? [y/N]".
ForceChoice ==
    /\ inspector.pc = "force"
    /\ \E raw \in Inputs :
        \E force \in {ReadChoice(raw)} :
            inspector' = [inspector EXCEPT
                !.input = raw,
                !.force = force,
                !.sent = @ \cup ForceCommands(force, inspector.alive),
                !.pc = "wait"]
    /\ last' = [op |-> "force"]
    /\ UNCHANGED <<config, loop, gpu_available, prev, wall, mono, exceeded_since,
                   last_alerted, calls, emitted>>

\* inspect_docker up to its prompt: docker stats and docker inspect may be
\* missing or time out ("unavailable") or fail ("not_found"), both end in
\* _wait_dismiss; docker top may time out, which nothing catches.
InspectDocker ==
    /\ inspector.pc = "start"
    /\ \E stats \in {"ok", "unavailable", "not_found"}, top \in {"ok", "timeout"} :
        inspector' = [inspector EXCEPT
            !.mode = "docker",
            !.pc = IF stats # "ok" THEN "wait"
                   ELSE IF top = "timeout" THEN "raised" ELSE "choice"]
    /\ last' = [op |-> "inspect_docker"]
    /\ UNCHANGED <<config, loop, gpu_available, prev, wall, mono, exceeded_since,
                   last_alerted, calls, emitted>>

\* The answer to "Choice [s/k/d]": the command of the branch, which may time
\* out after it was started.
DockerChoice ==
    /\ inspector.pc = "choice"
    /\ inspector.mode = "docker"
    /\ \E raw \in Inputs, result \in {"ok", "failed", "timeout"} :
        \E choice \in {ReadChoice(raw)} :
            inspector' = [inspector EXCEPT
                !.input = raw,
                !.choice = choice,
                !.sent = DockerCommands(choice),
                !.pc = IF choice \in {"s", "k"} /\ result = "timeout"
                       THEN "raised" ELSE "wait"]
    /\ last' = [op |-> "choice"]
    /\ UNCHANGED <<config, loop, gpu_available, prev, wall, mono, exceeded_since,
                   last_alerted, calls, emitted>>

\* _wait_dismiss: Enter, end of input or an interrupt closes the inspector.
WaitDismiss ==
    /\ inspector.pc = "wait"
    /\ inspector' = [inspector EXCEPT !.pc = "done"]
    /\ last' = [op |-> "_wait_dismiss"]
    /\ UNCHANGED <<config, loop, gpu_available, prev, wall, mono, exceeded_since,
                   last_alerted, calls, emitted>>

NextInspect ==
    \/ InspectProcess
    \/ ProcessChoice
    \/ ForceChoice
    \/ InspectDocker
    \/ DockerChoice
    \/ WaitDismiss

SpecInspect == InitTracker /\ [][NextInspect]_vars

(* Claims about the inspector *)

SentCommands(command) == {c \in inspector.sent : c.command = command}

\* C30: the inspector signals only on the user's choice.  The process
\* inspector terminates the matched processes only on "g" and kills them only
\* on "k", or kills the processes left alive by a graceful stop on "y"; the
\* Docker inspector runs docker stop only on "s" and docker kill only on "k";
\* on any other choice, and before any choice, nothing is sent.  The choice is
\* the line typed, stripped and lower-cased.
C30_SignalsOnlyOnChoice ==
    /\ inspector.pc \in {"start", "choice"} => inspector.sent = {}
    /\ inspector.mode = "process" =>
        /\ SentCommands("terminate") # {} => inspector.choice = "g"
        /\ SentCommands("terminate") \subseteq
               {Signal("terminate", p) : p \in inspector.procs}
        /\ SentCommands("kill") # {} =>
            \/ /\ inspector.choice = "k"
               /\ SentCommands("kill") = {Signal("kill", p) : p \in inspector.procs}
            \/ /\ inspector.choice = "g" /\ inspector.force = "y"
               /\ SentCommands("kill") = {Signal("kill", p) : p \in inspector.alive}
        /\ inspector.sent \subseteq SentCommands("terminate") \cup SentCommands("kill")
        /\ inspector.choice \notin {"g", "k"} => inspector.sent = {}
    /\ inspector.mode = "docker" =>
        /\ SentCommands("docker stop") # {} => inspector.choice = "s"
        /\ SentCommands("docker kill") # {} => inspector.choice = "k"
        /\ inspector.sent \subseteq {DockerCommand("docker stop"), DockerCommand("docker kill")}
        /\ inspector.choice \notin {"s", "k"} => inspector.sent = {}
    /\ inspector.mode = "none" => inspector.sent = {}

\* A graceful stop left a process alive and the user declined the force kill:
\* the terminate signals are all that was sent.
C30_Witness ==
    /\ inspector.mode = "process"
    /\ inspector.pc = "wait"
    /\ inspector.choice = "g"
    /\ inspector.alive # {}
    /\ inspector.force = "yes"
    /\ SentCommands("terminate") # {}
    /\ SentCommands("kill") = {}

====
